---- MODULE Spec2Model ----
(***************************************************************************)
(* Pace (StreetEasy commute times): a model of the content script          *)
(* (LRU result cache, request scheduler, retry loop, page lifecycle) and   *)
(* of the service worker that resolves a commute request.                  *)
(***************************************************************************)
EXTENDS Integers, Sequences, FiniteSets, TLC

(***************************************************************************)
(* Bounds of the model.                                                    *)
(***************************************************************************)
\* LRUCache constructor parameters, scaled down (the program uses 100 / 30 min)
maxSize == 2
ttlMs == 2
\* the clock of the cache model runs from 0 to MaxNow
MaxNow == ttlMs + 1

Keys == {"k1", "k2", "k3"}
Values == {"v1", "v2"}
Undefined == "undefined"

VARIABLES
  commuteCache,   \* LRUCache.cache: Map in insertion order, <<[key, value, timestamp]>>
  now,            \* Date.now()
  lastOp,         \* observation: the cache operation just performed and what it returned
  touchOrder,     \* observation: the cached keys in the order of their last touch
                  \* (set or successful get), least recent first
  lastSet,        \* observation: per key, the time of its last set while that entry was
                  \* neither evicted, cleared nor removed (Never otherwise)
  store,          \* chrome.storage.sync: workAddress, apiKey, workCoords
  rq,             \* one getCommuteTimeForAddress call: position, attempt, lastError, result
  log,            \* observation: what the resolver did and answered in the attempt just
                  \* completed (empty while an attempt is under way)
  href,           \* window.location.href (path and query)
  currentUrl,     \* currentUrl
  widget,         \* the elements with id pace-commute-widget, in document order
  isProcessing,   \* isProcessing
  lst,            \* the processListing call that is past its isProcessing guard
  timers,         \* pending setTimeout(processListing, 500) / setTimeout(processSearchResults, 500)
  psr,            \* processSearchResults calls waiting for storage.get / for the DOM to settle
  dom,            \* the listing card nodes in the document
  processedCards, \* processedCards
  intersectionObserver,        \* intersectionObserver !== null
  observed,                    \* the targets of intersectionObserver
  searchResultsObserver,       \* searchResultsObserver !== null
  searchResultsDebounceTimer,  \* the debounce timeout is pending
  requestQueue,   \* requestQueue: <<[card, address]>>
  activeRequests, \* activeRequests
  pendingRequests,\* pendingRequests: address -> the card whose call made the promise
  tasks,          \* processCardRequest calls that await a promise: card -> owner card
  badge,          \* the .pace-search-badge of each card
  cardAddress,    \* what extractAddressFromCard reads from each card
  obs,            \* observation: the items in flight at a teardown, the addresses with a
                  \* completed item, and what the handler that just ran did
  call            \* one call of a function of the content script: its arguments and
                  \* what it returned

cacheVars == <<commuteCache, now>>
cacheObs == <<lastOp, touchOrder, lastSet>>
resolveVars == <<store, rq, log>>
pageVars ==
  <<href, currentUrl, widget, isProcessing, lst, timers, psr, dom, processedCards,
    intersectionObserver, observed, searchResultsObserver, searchResultsDebounceTimer,
    requestQueue, activeRequests, pendingRequests, tasks, badge, cardAddress, obs>>
vars ==
  <<commuteCache, now, lastOp, touchOrder, lastSet, store, rq, log,
    href, currentUrl, widget, isProcessing, lst, timers, psr, dom, processedCards,
    intersectionObserver, observed, searchResultsObserver, searchResultsDebounceTimer,
    requestQueue, activeRequests, pendingRequests, tasks, badge, cardAddress, obs,
    call>>

(***************************************************************************)
(* LRUCache                                                                *)
(***************************************************************************)
MapKeys(c) == {c[i].key : i \in 1..Len(c)}
MapHas(c, key) == key \in MapKeys(c)
MapGet(c, key) == c[CHOOSE i \in 1..Len(c) : c[i].key = key]
MapDelete(c, key) == SelectSeq(c, LAMBDA e : e.key # key)
\* this.cache.keys().next().value
OldestKey(c) == IF Len(c) = 0 THEN Undefined ELSE c[1].key

\* new LRUCache(maxSize, ttlMs)
NewLRUCache(size, ttl) == [maxSize |-> size, ttlMs |-> ttl, cache |-> <<>>]

\* a has() that treats an entry as expired one tick early
LRUHas_Early(self, key, t) ==
  IF ~MapHas(self.cache, key) THEN [ret |-> FALSE, self |-> self]
  ELSE IF t - MapGet(self.cache, key).timestamp >= self.ttlMs
       THEN [ret |-> FALSE, self |-> [self EXCEPT !.cache = MapDelete(@, key)]]
       ELSE [ret |-> TRUE, self |-> self]

\* has(key): the value returned and the object afterwards
LRUHas(self, key, t) ==
  IF ~MapHas(self.cache, key) THEN [ret |-> FALSE, self |-> self]
  ELSE IF t - MapGet(self.cache, key).timestamp > self.ttlMs
       THEN [ret |-> FALSE, self |-> [self EXCEPT !.cache = MapDelete(@, key)]]
       ELSE [ret |-> TRUE, self |-> self]

\* a get() that stamps the entry it re-inserts
LRUGet_Refresh(self, key, t) ==
  LET h == LRUHas(self, key, t) IN
  IF ~h.ret THEN [ret |-> Undefined, self |-> h.self]
  ELSE LET entry == MapGet(h.self.cache, key) IN
       [ret |-> entry.value,
        self |-> [h.self EXCEPT !.cache =
                    Append(MapDelete(@, key), [entry EXCEPT !.timestamp = t])]]

\* a get() that does not re-insert the entry
LRUGet_NoTouch(self, key, t) ==
  LET h == LRUHas(self, key, t) IN
  IF ~h.ret THEN [ret |-> Undefined, self |-> h.self]
  ELSE [ret |-> MapGet(h.self.cache, key).value, self |-> h.self]

\* get(key)
LRUGet(self, key, t) ==
  LET h == LRUHas(self, key, t) IN
  IF ~h.ret THEN [ret |-> Undefined, self |-> h.self]
  ELSE LET entry == MapGet(h.self.cache, key) IN
       [ret |-> entry.value,
        self |-> [h.self EXCEPT !.cache = Append(MapDelete(@, key), entry)]]

\* the iterations of "while (this.cache.size >= this.maxSize) delete oldest";
\* fuel bounds the unrolling, terminated = FALSE when the fuel runs out
RECURSIVE EvictLoop(_, _, _)
EvictLoop(c, size, fuel) ==
  IF ~(Len(c) >= size) THEN [cache |-> c, iters |-> 0, terminated |-> TRUE]
  ELSE IF fuel = 0 THEN [cache |-> c, iters |-> 0, terminated |-> FALSE]
  ELSE LET r == EvictLoop(MapDelete(c, OldestKey(c)), size, fuel - 1) IN
       [cache |-> r.cache, iters |-> r.iters + 1, terminated |-> r.terminated]

EvictFuel(c) == Len(c) + 2

\* a set() without the eviction loop
LRUSet_NoEvict(self, key, value, t) ==
  LET d == IF MapHas(self.cache, key) THEN MapDelete(self.cache, key) ELSE self.cache IN
  [self |-> [self EXCEPT !.cache =
               Append(d, [key |-> key, value |-> value, timestamp |-> t])],
   iters |-> 0, terminated |-> TRUE, evicted |-> {}]

\* set(key, value)
LRUSet(self, key, value, t) ==
  LET d == IF MapHas(self.cache, key) THEN MapDelete(self.cache, key) ELSE self.cache
      r == EvictLoop(d, self.maxSize, EvictFuel(d))
  IN [self |-> [self EXCEPT !.cache =
                  Append(r.cache, [key |-> key, value |-> value, timestamp |-> t])],
      iters |-> r.iters, terminated |-> r.terminated,
      evicted |-> MapKeys(d) \ MapKeys(r.cache)]

\* clear()
LRUClear(self) == [self EXCEPT !.cache = <<>>]

\* get size()
LRUSize(self) == Len(self.cache)

(***************************************************************************)
(* chrome.storage.onChanged listener of the content script                 *)
(***************************************************************************)
StoreKeys == {"workAddress", "workCoords", "apiKey"}
Areas == {"sync", "local"}

\* a listener that forgets workCoords
ShouldClearCache_NoCoords(changes, areaName) ==
  areaName = "sync" /\ "workAddress" \in changes

\* areaName === 'sync' && (changes.workAddress || changes.workCoords)
ShouldClearCache(changes, areaName) ==
  areaName = "sync" /\ ("workAddress" \in changes \/ "workCoords" \in changes)

OnStorageChanged(self, changes, areaName) ==
  IF ShouldClearCache(changes, areaName) THEN LRUClear(self) ELSE self

(***************************************************************************)
(* Observations kept beside the cache (not program state)                  *)
(***************************************************************************)
NoOp == [op |-> "none"]
Touch(order, key) == Append(SelectSeq(order, LAMBDA k : k # key), key)
Forget(order, ks) == SelectSeq(order, LAMBDA k : k \notin ks)
\* the key of c that was touched least recently
LeastRecentlyTouched(c, order) ==
  IF Len(c) = 0 THEN Undefined
  ELSE LET idx == {i \in 1..Len(order) : order[i] \in MapKeys(c)} IN
       order[CHOOSE i \in idx : \A j \in idx : i <= j]
Never == [at |-> -1, live |-> FALSE]
Drop(ls, ks) == [k \in Keys |-> IF k \in ks THEN Never ELSE ls[k]]

(***************************************************************************)
(* Strings                                                                 *)
(***************************************************************************)
\* String.prototype.includes
Includes(s, sub) ==
  \E i \in 1..(Len(s) - Len(sub) + 1) : SubSeq(s, i, i + Len(sub) - 1) = sub

(***************************************************************************)
(* Service worker: handleCommuteRequest and the onMessage listener         *)
(***************************************************************************)
MsgSetWorkAddress == "Please set your work address in the Pace extension popup."
MsgSetApiKey == "Please set your Geoapify API key in the Pace extension popup."
MsgApartmentNotFound == "Could not find the apartment location. Try a more specific address."
MsgWorkNotFound == "Could not find your work location. Check the address in settings."
MsgNetwork == "Network error - please check your internet connection."
MsgGeocodeHttp == "Geocoding service error. Please try again."
MsgGeocodeParse == "Invalid response from geocoding service."
MsgRouteParse == "Invalid response from routing service."
MsgInvalidKey == "Invalid API key. Please check your key in the Pace popup."
MsgNoRoute400 == "No transit route available for this address"
MsgWrongLocation == "Address geocoded to wrong location (not in NYC area)"
MsgNoRoute == "No transit route available"
MsgRoutingFailed == "Routing failed"
TextNoRoute == "No transit route"

formatDuration_NoWholeHours(minutes) ==
  IF minutes < 60 THEN ToString(minutes) \o " min"
  ELSE LET hours == minutes \div 60
           mins == minutes % 60
       IN ToString(hours) \o " hr " \o ToString(mins) \o " min"

\* formatDuration(minutes)
formatDuration(minutes) ==
  IF minutes < 60 THEN ToString(minutes) \o " min"
  ELSE LET hours == minutes \div 60
           mins == minutes % 60
       IN IF mins = 0 THEN ToString(hours) \o " hr"
          ELSE ToString(hours) \o " hr " \o ToString(mins) \o " min"

\* Math.round(properties.time / 60) for a time in whole seconds >= 0
RoundMinutes(seconds) == (seconds + 30) \div 60

\* What the geocoding API does for one address
GeoOutcomes == {"network", "http", "parse", "none", "found"}

\* geocodeAddress: one fetch; returns coordinates or null, or throws
geocodeAddress(outcome) ==
  CASE outcome = "network" -> [throws |-> TRUE, message |-> MsgNetwork]
    [] outcome = "http" -> [throws |-> TRUE, message |-> MsgGeocodeHttp]
    [] outcome = "parse" -> [throws |-> TRUE, message |-> MsgGeocodeParse]
    [] outcome = "none" -> [throws |-> FALSE, coords |-> FALSE]
    [] outcome = "found" -> [throws |-> FALSE, coords |-> TRUE]

\* Error texts the routing API may put into data.message / data.error
ProviderMessages ==
  {"Route distance exceeds the limit", "Points are beyond max distance",
   "No path could be found for input", "Route could not be found",
   "Too many requests", ""}

\* What the routing API does: a network failure, an unparsable body, an HTTP
\* status with a JSON body, an error object in a 200 body, or a feature list
RouteOutcomes ==
  {[kind |-> "network"]}
  \cup {[kind |-> "unparsable", ok |-> ok, status |-> IF ok THEN 200 ELSE 503]
          : ok \in BOOLEAN}
  \cup {[kind |-> "status", status |-> st, statusText |-> tx]
          : st \in {401, 400}, tx \in {""}}
  \cup {[kind |-> "status", status |-> 500, statusText |-> "Internal Server Error"]}
  \cup {[kind |-> "error", errorMsg |-> m] : m \in ProviderMessages}
  \cup {[kind |-> "features", n |-> 0, time |-> 0]}
  \cup {[kind |-> "features", n |-> 1, time |-> t] : t \in {0, 1799, 3600, 5700}}

\* What the two APIs do during one request; the routing API is reached only
\* when both addresses were geocoded
ApiScenarios ==
  {[apt |-> a, work |-> w, route |-> [kind |-> "network"]]
     : a \in GeoOutcomes, w \in GeoOutcomes}
  \cup {[apt |-> "found", work |-> "found", route |-> r] : r \in RouteOutcomes}

Throw(m) == [throws |-> TRUE, message |-> m]

\* fetchTransitRoute: one fetch; returns {text, minutes} or throws
fetchTransitRoute(o) ==
  CASE o.kind = "network" -> Throw(MsgNetwork)
    [] o.kind = "unparsable" ->
         IF ~o.ok
         THEN Throw("Routing service error (" \o ToString(o.status)
                      \o "). Please try again.")
         ELSE Throw(MsgRouteParse)
    [] o.kind = "status" ->
         IF o.status = 401 THEN Throw(MsgInvalidKey)
         ELSE IF o.status = 400 THEN Throw(MsgNoRoute400)
         ELSE Throw("API error: " \o ToString(o.status) \o " " \o o.statusText)
    [] o.kind = "error" ->
         IF Includes(o.errorMsg, "distance exceeds") \/ Includes(o.errorMsg, "max distance")
         THEN Throw(MsgWrongLocation)
         ELSE IF Includes(o.errorMsg, "No path") \/ Includes(o.errorMsg, "could not be found")
         THEN Throw(MsgNoRoute)
         ELSE Throw(IF o.errorMsg # "" THEN o.errorMsg ELSE MsgRoutingFailed)
    [] o.kind = "features" ->
         IF o.n = 0 \/ o.time = 0
         THEN [throws |-> FALSE, text |-> TextNoRoute, minutes |-> -1]
         ELSE [throws |-> FALSE, text |-> formatDuration(RoundMinutes(o.time)),
               minutes |-> RoundMinutes(o.time)]

Stores ==
  [workAddress : {"", "350 5th Ave, New York, NY"}, apiKey : {"", "KEY"},
   workCoords : BOOLEAN]

\* handleCommuteRequest: the set of outcomes [throws, message | morning, fetches]
\* it can have for a store and for what the two APIs do; fetches counts the
\* fetch() calls it made.  When both geocodings throw, Promise.all rejects
\* with either error.
handleCommuteRequest(st, apt, work, route) ==
  IF st.workAddress = "" THEN {[throws |-> TRUE, message |-> MsgSetWorkAddress, fetches |-> 0]}
  ELSE IF st.apiKey = "" THEN {[throws |-> TRUE, message |-> MsgSetApiKey, fetches |-> 0]}
  ELSE
    LET a == geocodeAddress(apt)
        w == IF st.workCoords THEN [throws |-> FALSE, coords |-> TRUE]
             ELSE geocodeAddress(work)
        geoFetches == IF st.workCoords THEN 1 ELSE 2
    IN IF a.throws \/ w.throws
       THEN {[throws |-> TRUE, message |-> g.message, fetches |-> geoFetches]
               : g \in {x \in {a, w} : x.throws}}
       ELSE IF ~a.coords
       THEN {[throws |-> TRUE, message |-> MsgApartmentNotFound, fetches |-> geoFetches]}
       ELSE IF ~w.coords
       THEN {[throws |-> TRUE, message |-> MsgWorkNotFound, fetches |-> geoFetches]}
       ELSE LET r == fetchTransitRoute(route) IN
            IF r.throws
            THEN {[throws |-> TRUE, message |-> r.message, fetches |-> geoFetches + 1]}
            ELSE {[throws |-> FALSE,
                   morning |-> [text |-> r.text, minutes |-> r.minutes],
                   fetches |-> geoFetches + 1]}

\* onMessage listener: .then(sendResponse).catch(e => sendResponse({error: e.message}))
onMessage(outcome) ==
  IF outcome.throws THEN [error |-> outcome.message]
  ELSE [morning |-> outcome.morning]

(***************************************************************************)
(* Content script: page classification                                     *)
(***************************************************************************)
Digits == {"0", "1", "2", "3", "4", "5", "6", "7", "8", "9"}
CharAt(s, i) == SubSeq(s, i, i)
StartsWith(s, prefix) == Len(prefix) <= Len(s) /\ SubSeq(s, 1, Len(prefix)) = prefix

\* window.location.pathname of an href without origin
Pathname(h) ==
  LET q == {i \in 1..Len(h) : CharAt(h, i) \in {"?", "#"}} IN
  IF q = {} THEN h ELSE SubSeq(h, 1, (CHOOSE i \in q : \A j \in q : i <= j) - 1)

\* new RegExp(prefix + "\\d+").test(path)
MatchesPrefixDigits(path, prefix) ==
  \E i \in 1..Len(path) :
    /\ i + Len(prefix) <= Len(path)
    /\ SubSeq(path, i, i + Len(prefix) - 1) = prefix
    /\ CharAt(path, i + Len(prefix)) \in Digits

\* new RegExp(prefix + "\\d+$").test(path)
MatchesPrefixDigitsEnd(path, prefix) ==
  \E i \in 1..Len(path) :
    /\ i + Len(prefix) <= Len(path)
    /\ SubSeq(path, i, i + Len(prefix) - 1) = prefix
    /\ \A j \in (i + Len(prefix))..Len(path) : CharAt(path, j) \in Digits

isListingPage(h) ==
  LET path == Pathname(h) IN
  \/ Includes(path, "/building/")
  \/ Includes(path, "/rental/")
  \/ Includes(path, "/sale/")
  \/ MatchesPrefixDigits(path, "/for-rent/")
  \/ MatchesPrefixDigits(path, "/for-sale/")

isSearchResultsPage(h) ==
  LET path == Pathname(h)
      isForRentSearch ==
        StartsWith(path, "/for-rent/") /\ ~MatchesPrefixDigitsEnd(path, "/for-rent/")
      isForSaleSearch ==
        StartsWith(path, "/for-sale/") /\ ~MatchesPrefixDigitsEnd(path, "/for-sale/")
  IN isForRentSearch \/ isForSaleSearch

(***************************************************************************)
(* Content script: address validation and cleaning                         *)
(***************************************************************************)
\* null, where the code has a string or null
Null == "<null>"
LowerCaseLetters == "abcdefghijklmnopqrstuvwxyz"
UpperCaseLetters == "ABCDEFGHIJKLMNOPQRSTUVWXYZ"
Letters ==
  {CharAt(LowerCaseLetters, i) : i \in 1..26} \cup {CharAt(UpperCaseLetters, i) : i \in 1..26}
\* \s and \w
Whitespace == {" ", "\t"}
WordChars == Letters \cup Digits \cup {"_"}

LowerChar(ch) ==
  IF \E i \in 1..26 : CharAt(UpperCaseLetters, i) = ch
  THEN CharAt(LowerCaseLetters, CHOOSE i \in 1..26 : CharAt(UpperCaseLetters, i) = ch)
  ELSE ch

RECURSIVE toLowerCase(_)
toLowerCase(s) ==
  IF Len(s) = 0 THEN ""
  ELSE IF Len(s) = 1 THEN LowerChar(s)
  ELSE toLowerCase(SubSeq(s, 1, Len(s) \div 2))
         \o toLowerCase(SubSeq(s, Len(s) \div 2 + 1, Len(s)))

\* String.prototype.trim
trim(s) ==
  LET keep == {i \in 1..Len(s) : CharAt(s, i) \notin Whitespace} IN
  IF keep = {} THEN ""
  ELSE SubSeq(s, CHOOSE i \in keep : \A j \in keep : i <= j,
                 CHOOSE i \in keep : \A j \in keep : i >= j)

IsWordCharAt(s, i) == i >= 1 /\ i <= Len(s) /\ CharAt(s, i) \in WordChars

\* /\b(w)\b/i for a word w that starts and ends with a word character
MatchesWord(text, w) ==
  LET t == toLowerCase(text) IN
  \E i \in 1..Len(t) :
    /\ i + Len(w) - 1 <= Len(t)
    /\ SubSeq(t, i, i + Len(w) - 1) = w
    /\ ~IsWordCharAt(t, i - 1)
    /\ ~IsWordCharAt(t, i + Len(w))

\* /\d+\s+\w+/
MatchesNumberWord(text) ==
  \E i \in 1..Len(text), k \in 1..Len(text) :
    /\ i + 1 < k
    /\ CharAt(text, i) \in Digits
    /\ \A j \in (i + 1)..(k - 1) : CharAt(text, j) \in Whitespace
    /\ CharAt(text, k) \in WordChars

\* /\b\d{5}\b/
MatchesZip(text) ==
  \E i \in 1..Len(text) :
    /\ i + 4 <= Len(text)
    /\ \A j \in i..(i + 4) : CharAt(text, j) \in Digits
    /\ ~IsWordCharAt(text, i - 1)
    /\ ~IsWordCharAt(text, i + 5)

StreetWords ==
  {"street", "st", "avenue", "ave", "road", "rd", "boulevard", "blvd", "place", "pl",
   "way", "drive", "dr"}
CityWords ==
  {"new york", "nyc", "brooklyn", "manhattan", "queens", "bronx", "staten island"}
StateWords == {"ny", "nyc"}

isAddressLike(text) ==
  IF text = Null \/ Len(text) < 5 THEN FALSE
  ELSE \/ MatchesNumberWord(text)
       \/ \E w \in StreetWords : MatchesWord(text, w)
       \/ \E w \in CityWords : MatchesWord(text, w)
       \/ \E w \in StateWords : MatchesWord(text, w)
       \/ MatchesZip(text)

\* the words of the patterns /^w/i and /^w$/i
InvalidPrefixes == {"loading", "error", "pending", "unavailable", "unknown"}
InvalidWords == {"na", "n/a", "tbd", "null", "undefined"}
IsRunOf(s, ch) == Len(s) > 0 /\ \A i \in 1..Len(s) : CharAt(s, i) = ch

\* invalidPatterns.some(pattern => pattern.test(trimmed))
MatchesInvalidPattern(trimmed) ==
  LET t == toLowerCase(trimmed) IN
  \/ \E w \in InvalidPrefixes : StartsWith(t, w)
  \/ t \in InvalidWords
  \/ StartsWith(trimmed, "...")
  \/ IsRunOf(trimmed, "-")
  \/ IsRunOf(trimmed, "_")

isValidExtractedAddress_NoMax(text) ==
  IF text = Null \/ Len(text) = 0 THEN FALSE
  ELSE LET trimmed == trim(text) IN
       IF Len(trimmed) < 5 THEN FALSE
       ELSE IF MatchesInvalidPattern(trimmed) THEN FALSE
       ELSE IF ~(\E i \in 1..Len(trimmed) : CharAt(trimmed, i) \in Letters) THEN FALSE
       ELSE isAddressLike(trimmed)

isValidExtractedAddress(text) ==
  IF text = Null \/ Len(text) = 0 THEN FALSE
  ELSE LET trimmed == trim(text) IN
       IF Len(trimmed) < 5 THEN FALSE
       ELSE IF Len(trimmed) > 200 THEN FALSE
       ELSE IF MatchesInvalidPattern(trimmed) THEN FALSE
       ELSE IF ~(\E i \in 1..Len(trimmed) : CharAt(trimmed, i) \in Letters) THEN FALSE
       ELSE isAddressLike(trimmed)

\* text.split(sep)[0]
BeforeFirst(text, sep) ==
  LET at == {i \in 1..Len(text) :
               i + Len(sep) - 1 <= Len(text) /\ SubSeq(text, i, i + Len(sep) - 1) = sep}
  IN IF at = {} THEN text
     ELSE SubSeq(text, 1, (CHOOSE i \in at : \A j \in at : i <= j) - 1)

\* text.replace(/\s*#\S+/g, '')
RECURSIVE RemoveUnitNumbers(_)
RemoveUnitNumbers(text) ==
  LET hashes == {h \in 1..Len(text) :
                   /\ CharAt(text, h) = "#"
                   /\ h < Len(text)
                   /\ CharAt(text, h + 1) \notin Whitespace}
  IN IF hashes = {} THEN text
     ELSE LET h == CHOOSE i \in hashes : \A j \in hashes : i <= j
              from == CHOOSE i \in 1..h :
                        /\ \A j \in i..(h - 1) : CharAt(text, j) \in Whitespace
                        /\ (i = 1 \/ CharAt(text, i - 1) \notin Whitespace)
              ends == {e \in h..Len(text) :
                         /\ \A j \in h..e : CharAt(text, j) \notin Whitespace
                         /\ (e = Len(text) \/ CharAt(text, e + 1) \in Whitespace)}
              to == CHOOSE e \in ends : TRUE
          IN SubSeq(text, 1, from - 1) \o RemoveUnitNumbers(SubSeq(text, to + 1, Len(text)))

\* text.replace(/\s+/g, ' ') for the characters lo..hi: the first character of
\* a run of whitespace becomes a space, the others vanish
RECURSIVE NormalizeRange(_, _, _)
NormalizeRange(text, lo, hi) ==
  IF lo > hi THEN ""
  ELSE IF lo = hi
       THEN IF CharAt(text, lo) \notin Whitespace THEN CharAt(text, lo)
            ELSE IF lo > 1 /\ CharAt(text, lo - 1) \in Whitespace THEN "" ELSE " "
       ELSE NormalizeRange(text, lo, (lo + hi) \div 2)
              \o NormalizeRange(text, (lo + hi) \div 2 + 1, hi)

NormalizeWhitespace(text) == NormalizeRange(text, 1, Len(text))

cleanAddress(text) ==
  trim(NormalizeWhitespace(RemoveUnitNumbers(
    BeforeFirst(BeforeFirst(BeforeFirst(text, "|"), " - "), " for "))))

\* extractAddress of the content script: aboutBuilding is the text of the
\* AboutBuildingSection_address element (Null without element), jsonLd is
\* what extractFromJsonLd returns
extractAddress(aboutBuilding, jsonLd) ==
  IF aboutBuilding # Null /\ isValidExtractedAddress(trim(aboutBuilding))
  THEN trim(aboutBuilding)
  ELSE IF jsonLd # Null /\ jsonLd # "" /\ isValidExtractedAddress(jsonLd)
       THEN jsonLd
       ELSE Null

(***************************************************************************)
(* Content script: page lifecycle and request scheduler.  A handler is a   *)
(* function of the state record; the callbacks that run as microtasks      *)
(* after it are composed onto it.                                          *)
(***************************************************************************)
MAX_CONCURRENT_REQUESTS == 3
\* card nodes the host page can create
NCards == 5
\* the cards the host page shows during a session with navigation or expiry
MaxHostCards == 4
\* scheduled initializations (timers and processSearchResults calls) at a time
MaxPending == 3
\* how often the clock advances, by half the time to live, during a stay on a page
MaxPageTicks == 3

\* the pages visited in a session: listing pages or a search results page, and
\* a page of neither kind
ListingUrls == {"/rental/101", "/building/the-max", "/about"}
SearchUrls == {"/for-rent/nyc", "/about"}
Cards == 1..NCards
\* the addresses on the cards: all different, or repeating after
\* MAX_CONCURRENT_REQUESTS cards
CardLayouts ==
  {[c \in Cards |-> "a" \o ToString(c)],
   [c \in Cards |-> "a" \o ToString(((c - 1) % MAX_CONCURRENT_REQUESTS) + 1)]}
\* the same with a card from which no address can be read
StayLayouts ==
  CardLayouts \cup {[c \in Cards |-> IF c = 2 THEN Null ELSE "a" \o ToString(c)]}
\* how a resolution or a listing request ends
Outcomes == {"success", "error"}
\* the resolver answers the same for the same address: the second card's address
\* cannot be resolved
ResolverOutcome(address) == IF address = "a2" THEN "error" ELSE "success"

NoCall == [fn |-> "none"]
NoWidget == <<>>
LstIdle == [pc |-> "idle"]
\* waitForContent: maxWait and interval (5000 and 100 in the program)
contentMaxWait == 3
contentInterval == 1
LstWait == [pc |-> "waitContent", waited |-> 0]
\* what the address element and the JSON-LD data of a listing page hold
ListingTexts == {Null, "Loading...", "150 E 44th St, New York"}
NoTeardown == [at |-> "none"]
NoObs ==
  [stale |-> {}, done |-> {}, staleRender |-> FALSE, duplicateCall |-> FALSE,
   teardown |-> NoTeardown, handed |-> [c \in Cards |-> 0], dispatched |-> {},
   fromCache |-> {}, worker |-> <<>>, popped |-> FALSE, again |-> FALSE]

St ==
  [href |-> href, currentUrl |-> currentUrl, widget |-> widget,
   isProcessing |-> isProcessing, lst |-> lst, timers |-> timers, psr |-> psr,
   dom |-> dom, processedCards |-> processedCards,
   intersectionObserver |-> intersectionObserver, observed |-> observed,
   searchResultsObserver |-> searchResultsObserver,
   searchResultsDebounceTimer |-> searchResultsDebounceTimer,
   requestQueue |-> requestQueue, activeRequests |-> activeRequests,
   pendingRequests |-> pendingRequests, tasks |-> tasks, badge |-> badge,
   cardAddress |-> cardAddress,
   obs |-> [obs EXCEPT !.staleRender = FALSE, !.duplicateCall = FALSE,
                       !.teardown = NoTeardown, !.dispatched = {},
                       !.fromCache = {}, !.again = FALSE],
   commuteCache |-> commuteCache]

Apply(s) ==
  /\ href' = s.href
  /\ currentUrl' = s.currentUrl
  /\ widget' = s.widget
  /\ isProcessing' = s.isProcessing
  /\ lst' = s.lst
  /\ timers' = s.timers
  /\ psr' = s.psr
  /\ dom' = s.dom
  /\ processedCards' = s.processedCards
  /\ intersectionObserver' = s.intersectionObserver
  /\ observed' = s.observed
  /\ searchResultsObserver' = s.searchResultsObserver
  /\ searchResultsDebounceTimer' = s.searchResultsDebounceTimer
  /\ requestQueue' = s.requestQueue
  /\ activeRequests' = s.activeRequests
  /\ pendingRequests' = s.pendingRequests
  /\ tasks' = s.tasks
  /\ badge' = s.badge
  /\ obs' = s.obs
  /\ commuteCache' = s.commuteCache
  /\ UNCHANGED cardAddress
  /\ UNCHANGED <<now, cacheObs, resolveVars, call>>

Without(f, ks) == [x \in (DOMAIN f) \ ks |-> f[x]]

\* removeWidget: getElementById finds the first such element
removeWidget(s) == IF s.widget = NoWidget THEN s ELSE [s EXCEPT !.widget = Tail(@)]

\* the argument of injectWidget: loading, and error ("" when not given)
Loading == [loading |-> TRUE, error |-> ""]
Failed(error) == [loading |-> FALSE, error |-> error]
Times == [loading |-> FALSE, error |-> ""]
MsgNoAddress == "Could not detect address on this page."
MsgFailed == "Failed to calculate commute times."
\* the branch of injectWidget that fills the widget
View(props) ==
  IF props.loading THEN "loading"
  ELSE IF props.error # "" THEN "error"
  ELSE "success"
WidgetElement(props, url) == [state |-> View(props), error |-> props.error, url |-> url]

injectWidget_NoRemove(s, props, url) ==
  [s EXCEPT !.widget = Append(@, WidgetElement(props, url))]

\* injectWidget: the new widget replaces any previous one; url is the page the
\* address was read from
injectWidget(s, props, url) ==
  [removeWidget(s) EXCEPT !.widget = Append(@, WidgetElement(props, url))]

\* injectCommuteBadge: the new badge replaces the card's previous one
injectCommuteBadge(s, card, state) == [s EXCEPT !.badge[card] = state]

cleanupSearchResultsObservers_KeepActive(s) ==
  [s EXCEPT !.searchResultsDebounceTimer = FALSE,
            !.searchResultsObserver = FALSE,
            !.intersectionObserver = FALSE,
            !.observed = {},
            !.requestQueue = <<>>]

cleanupSearchResultsObservers(s) ==
  [s EXCEPT !.searchResultsDebounceTimer = FALSE,
            !.searchResultsObserver = FALSE,
            !.intersectionObserver = FALSE,
            !.observed = {},
            !.requestQueue = <<>>,
            !.activeRequests = 0]

\* observation: the requests in flight at this moment were sent before a teardown
MarkInFlight(s) ==
  [s EXCEPT !.lst = IF @.pc = "request" THEN [@ EXCEPT !.stale = TRUE] ELSE @,
            !.obs.stale = @ \cup DOMAIN s.tasks]

\* observation: what the handler that tore the page down left behind
TeardownSnapshot(s) ==
  [s EXCEPT !.obs.teardown =
     [at |-> "teardown", widget |-> s.widget, requestQueue |-> s.requestQueue,
      searchResultsDebounceTimer |-> s.searchResultsDebounceTimer,
      searchResultsObserver |-> s.searchResultsObserver,
      intersectionObserver |-> s.intersectionObserver,
      activeRequests |-> s.activeRequests, inFlight |-> DOMAIN s.tasks],
            !.obs.again = @ \/ s.obs.popped,
            !.obs.popped = FALSE]

\* removeWidget(); cleanupSearchResultsObservers();
Teardown(s) ==
  TeardownSnapshot(cleanupSearchResultsObservers(removeWidget(MarkInFlight(s))))

\* if (isListingPage()) setTimeout(processListing, 500)
\* else if (isSearchResultsPage()) setTimeout(processSearchResults, 500)
ScheduleInit(s) ==
  IF isListingPage(s.href) THEN [s EXCEPT !.timers.listing = @ + 1]
  ELSE IF isSearchResultsPage(s.href) THEN [s EXCEPT !.timers.search = @ + 1]
  ELSE s

NavigationObserver_NoUrlTest(s) ==
  ScheduleInit(Teardown([s EXCEPT !.currentUrl = s.href]))

\* the MutationObserver callback of init()
NavigationObserver(s) ==
  IF s.href # s.currentUrl
  THEN ScheduleInit(Teardown([s EXCEPT !.currentUrl = s.href]))
  ELSE s

\* the MutationObserver callback of setupSearchResultsObserver(), up to the timer
SearchResultsObserverCallback(s, hasElementNodes) ==
  IF s.searchResultsObserver /\ hasElementNodes
  THEN [s EXCEPT !.searchResultsDebounceTimer = TRUE]
  ELSE s

\* the mutation callbacks that run after a task that changed the DOM, in the
\* order in which the observers were created
MutationCallbacks(s, hasElementNodes) ==
  SearchResultsObserverCallback(NavigationObserver(s), hasElementNodes)

\* processCardRequest up to its first await
processCardRequestStart(s, item) ==
  IF item.address \in DOMAIN s.pendingRequests
  THEN [s EXCEPT !.tasks = (item.card :> s.pendingRequests[item.address]) @@ @]
  ELSE [s EXCEPT !.tasks = (item.card :> item.card) @@ @,
                 !.pendingRequests = (item.address :> item.card) @@ @,
                 !.obs.duplicateCall =
                    @ \/ (item.early /\ item.address \in s.obs.done)]

processQueue_TakeLast(s) ==
  IF Len(s.requestQueue) > 0 /\ s.activeRequests < MAX_CONCURRENT_REQUESTS
  THEN LET item == s.requestQueue[Len(s.requestQueue)] IN
       processCardRequestStart(
         [s EXCEPT !.requestQueue = SubSeq(@, 1, Len(@) - 1),
                   !.activeRequests = @ + 1], item)
  ELSE s

\* processQueue
RECURSIVE processQueue(_)
processQueue(s) ==
  IF Len(s.requestQueue) > 0 /\ s.activeRequests < MAX_CONCURRENT_REQUESTS
  THEN LET item == Head(s.requestQueue) IN
       processQueue(processCardRequestStart(
         [s EXCEPT !.requestQueue = Tail(@), !.activeRequests = @ + 1], item))
  ELSE s

\* the badge state for a result: { error } or { time }
BadgeOf(result) == result.kind

queueCardForProcessing_NoCache(s, card, t) ==
  LET address == s.cardAddress[card]
      s0 == [s EXCEPT !.obs.handed[card] = IF @ < 2 THEN @ + 1 ELSE @]
      s1 == injectCommuteBadge(s0, card, "loading")
  IN processQueue(
       [s1 EXCEPT !.requestQueue =
                     Append(@, [card |-> card, address |-> address,
                                early |-> address \notin s.obs.done])])

\* queueCardForProcessing
queueCardForProcessing(s, card, t) ==
  LET address == s.cardAddress[card]
      s0 == [s EXCEPT !.obs.handed[card] = IF @ < 2 THEN @ + 1 ELSE @]
      s1 == injectCommuteBadge(s0, card, "loading")
      h == LRUHas(s1.commuteCache, address, t)
  IN IF address = Null THEN s0
     ELSE IF h.ret
     THEN LET g == LRUGet(h.self, address, t) IN
          injectCommuteBadge([s1 EXCEPT !.commuteCache = g.self,
                                        !.obs.fromCache = @ \cup {card}],
                             card, BadgeOf(g.ret))
     ELSE processQueue(
            [s1 EXCEPT !.commuteCache = h.self,
                       !.requestQueue =
                          Append(@, [card |-> card, address |-> address,
                                     early |-> address \notin s.obs.done])])

\* the IntersectionObserver callback for one intersecting entry
IntersectionEntry(s, card, t) ==
  LET s1 == IF card \notin s.processedCards
            THEN queueCardForProcessing(
                   [s EXCEPT !.processedCards = @ \cup {card}], card, t)
            ELSE s
  IN [s1 EXCEPT !.observed = @ \ {card}]

Finallys_NoDispatch(s, n) == [s EXCEPT !.activeRequests = @ - n]

\* .finally(() => { activeRequests--; processQueue(); }) of n finished items
RECURSIVE Finallys(_, _)
Finallys(s, n) ==
  IF n = 0 THEN s
  ELSE Finallys(processQueue([s EXCEPT !.activeRequests = @ - 1]), n - 1)

\* processCardRequest whose catch block leaves the pendingRequests entry
Continuations_KeepOnError(s, owner, result, t) ==
  LET address == s.cardAddress[owner]
      waiters == {w \in DOMAIN s.tasks : s.tasks[w] = owner}
      set == LRUSet(s.commuteCache, address, result, t)
  IN [s EXCEPT !.commuteCache = set.self,
               !.pendingRequests = IF result.kind = "error" THEN @
                                   ELSE Without(@, {address}),
               !.badge = [c \in Cards |-> IF c \in waiters THEN BadgeOf(result) ELSE @[c]],
               !.tasks = Without(@, waiters),
               !.obs.stale = @ \ waiters,
               !.obs.staleRender = @ \/ (waiters \cap s.obs.stale # {}),
               !.obs.done = @ \cup {address}]

\* processCardRequest after the await, for the owner of the promise and for
\* every item that awaited the same promise
Continuations(s, owner, result, t) ==
  LET address == s.cardAddress[owner]
      waiters == {w \in DOMAIN s.tasks : s.tasks[w] = owner}
      set == LRUSet(s.commuteCache, address, result, t)
  IN [s EXCEPT !.commuteCache = set.self,
               !.pendingRequests = Without(@, {address}),
               !.badge = [c \in Cards |-> IF c \in waiters THEN BadgeOf(result) ELSE @[c]],
               !.tasks = Without(@, waiters),
               !.obs.stale = @ \ waiters,
               !.obs.staleRender = @ \/ (waiters \cap s.obs.stale # {}),
               !.obs.done = @ \cup {address}]

(***************************************************************************)
(* Content script: the events of a page                                    *)
(***************************************************************************)
Pending == timers.listing + timers.search + psr.get + psr.settle

InitPageIdle ==
  /\ href = "/about"
  /\ currentUrl = "/about"
  /\ widget = NoWidget
  /\ isProcessing = FALSE
  /\ lst = LstIdle
  /\ timers = [listing |-> 0, search |-> 0]
  /\ psr = [get |-> 0, settle |-> 0]
  /\ dom = {}
  /\ processedCards = {}
  /\ intersectionObserver = FALSE
  /\ observed = {}
  /\ searchResultsObserver = FALSE
  /\ searchResultsDebounceTimer = FALSE
  /\ requestQueue = <<>>
  /\ activeRequests = 0
  /\ pendingRequests = <<>>
  /\ tasks = <<>>
  /\ badge = [c \in Cards |-> "none"]
  /\ cardAddress = [c \in Cards |-> "a" \o ToString(c)]
  /\ obs = NoObs
  /\ call = NoCall

\* the state when init() has installed its listeners, on one of the pages
InitOn(urls, layouts) ==
  /\ href \in urls
  /\ currentUrl = href
  /\ widget = NoWidget
  /\ isProcessing = isListingPage(href)
  /\ lst = IF isListingPage(href) THEN LstWait ELSE LstIdle
  /\ timers = [listing |-> 0,
               search |-> IF ~isListingPage(href) /\ isSearchResultsPage(href)
                          THEN 1 ELSE 0]
  /\ psr = [get |-> 0, settle |-> 0]
  /\ dom = {}
  /\ processedCards = {}
  /\ intersectionObserver = FALSE
  /\ observed = {}
  /\ searchResultsObserver = FALSE
  /\ searchResultsDebounceTimer = FALSE
  /\ requestQueue = <<>>
  /\ activeRequests = 0
  /\ pendingRequests = <<>>
  /\ tasks = <<>>
  /\ badge = [c \in Cards |-> "none"]
  /\ cardAddress \in layouts
  /\ obs = NoObs
  /\ call = NoCall
  /\ commuteCache = NewLRUCache(100, 30 * 60 * 1000)
  /\ now = 0
  /\ lastOp = NoOp
  /\ touchOrder = <<>>
  /\ lastSet = [k \in Keys |-> Never]
  /\ store \in {st \in Stores : ~st.workCoords}
  /\ rq = [pc |-> "idle"]
  /\ log = <<>>

Init == InitOn(SearchUrls, CardLayouts)
InitListing == InitOn(ListingUrls, CardLayouts)
InitStay == InitOn(SearchUrls, StayLayouts)

\* the host page navigates with history.pushState
PushState(u) ==
  /\ u # href
  /\ Pending + 2 <= MaxPending
  /\ Apply([St EXCEPT !.href = u, !.obs.popped = FALSE])

\* back / forward: the popstate listener, then the mutation callback when
\* removeWidget removed a widget
PopState(u) ==
  /\ u # href
  /\ Pending + 2 <= MaxPending
  /\ LET s1 == ScheduleInit(Teardown([St EXCEPT !.href = u])) IN
     Apply(IF widget # NoWidget THEN MutationCallbacks(s1, FALSE) ELSE s1)

\* the same, with the observation that the popstate listener has run for the
\* page shown
BackForward(u) ==
  /\ u # href
  /\ Pending + 2 <= MaxPending
  /\ LET s0 == ScheduleInit(Teardown([St EXCEPT !.href = u, !.obs.popped = FALSE]))
         s1 == [s0 EXCEPT !.obs.popped = TRUE]
     IN Apply(IF widget # NoWidget THEN MutationCallbacks(s1, FALSE) ELSE s1)

\* the host page changes the DOM, adding element nodes other than cards or not
HostMutation(hasElementNodes) ==
  Apply(MutationCallbacks(St, hasElementNodes))

\* the host page adds a listing card
HostAddCard ==
  /\ isSearchResultsPage(href)
  /\ Cardinality(dom) < NCards
  /\ Cardinality(dom) < MaxHostCards
  /\ Apply(MutationCallbacks([St EXCEPT !.dom = @ \cup {Cardinality(dom) + 1}], TRUE))

\* a setTimeout(processListing, 500) fires: processListing up to its first await
TimerListing ==
  /\ timers.listing > 0
  /\ LET s1 == [St EXCEPT !.timers.listing = @ - 1] IN
     Apply(IF isProcessing THEN s1
           ELSE [s1 EXCEPT !.isProcessing = TRUE, !.lst = LstWait])

\* waitForContent: one round of its loop; markers tells whether an h1 or an
\* element whose class contains "address" is in the document
WaitForContent(markers) ==
  /\ lst.pc = "waitContent"
  /\ Apply(IF markers
           THEN [St EXCEPT !.lst = [pc |-> "extract", markers |-> TRUE,
                                    waited |-> lst.waited]]
           ELSE IF lst.waited + contentInterval < contentMaxWait
           THEN [St EXCEPT !.lst.waited = @ + contentInterval]
           ELSE [St EXCEPT !.lst = [pc |-> "extract", markers |-> FALSE,
                                    waited |-> lst.waited + contentInterval]])

\* processListing from the end of waitForContent to the sendMessage call or
\* to the return for a page without address; the address element has a class
\* that contains "address"
ListingContent(aboutBuilding, jsonLd) ==
  /\ lst.pc = "extract"
  /\ aboutBuilding # Null => lst.markers
  /\ Apply(IF extractAddress(aboutBuilding, jsonLd) # Null
           THEN MutationCallbacks(
                  [injectWidget(St, Loading, href)
                     EXCEPT !.lst = [pc |-> "request", url |-> href, stale |-> FALSE]],
                  TRUE)
           ELSE MutationCallbacks(
                  [injectWidget(St, Failed(MsgNoAddress), href)
                     EXCEPT !.lst = LstIdle, !.isProcessing = FALSE],
                  TRUE))

\* processListing after sendMessage: the response, or the exception, is rendered
ListingResponse(outcome) ==
  /\ lst.pc = "request"
  /\ Apply(MutationCallbacks(
             [injectWidget(St, IF outcome = "error" THEN Failed(MsgFailed) ELSE Times, lst.url)
                EXCEPT !.lst = LstIdle, !.isProcessing = FALSE,
                       !.obs.staleRender = (lst.stale /\ lst.url # href)],
             TRUE))

\* a setTimeout(processSearchResults, 500) fires
TimerSearch ==
  /\ timers.search > 0
  /\ Apply([St EXCEPT !.timers.search = @ - 1, !.psr.get = @ + 1])

PsrConfigured_NoKeyGate ==
  /\ psr.get > 0
  /\ Apply(IF store.workAddress = ""
           THEN [St EXCEPT !.psr.get = @ - 1]
           ELSE [St EXCEPT !.psr.get = @ - 1, !.psr.settle = @ + 1])

\* processSearchResults after storage.get: the configuration gate
PsrConfigured ==
  /\ psr.get > 0
  /\ Apply(IF store.workAddress = "" \/ store.apiKey = ""
           THEN [St EXCEPT !.psr.get = @ - 1]
           ELSE [St EXCEPT !.psr.get = @ - 1, !.psr.settle = @ + 1])

PsrSettled_ObserveAll ==
  /\ psr.settle > 0
  /\ LET s1 == [St EXCEPT !.psr.settle = @ - 1] IN
     Apply(IF dom = {} THEN s1
           ELSE [s1 EXCEPT !.intersectionObserver = TRUE,
                           !.observed = @ \cup dom,
                           !.searchResultsObserver = TRUE])

\* processSearchResults after waitForDomToSettle
PsrSettled ==
  /\ psr.settle > 0
  /\ LET s1 == [St EXCEPT !.psr.settle = @ - 1] IN
     Apply(IF dom = {} THEN s1
           ELSE [s1 EXCEPT !.intersectionObserver = TRUE,
                           !.observed = @ \cup (dom \ processedCards),
                           !.searchResultsObserver = TRUE])

\* the IntersectionObserver callback: a card came near the viewport
Intersect(card) ==
  /\ intersectionObserver
  /\ card \in observed
  /\ LET s1 == IntersectionEntry(St, card, now) IN
     Apply(IF card \in processedCards \/ cardAddress[card] = Null THEN s1
           ELSE MutationCallbacks(s1, TRUE))

\* the debounce timeout of the search results observer fires
DebounceFired ==
  /\ searchResultsDebounceTimer
  /\ Apply([St EXCEPT !.searchResultsDebounceTimer = FALSE,
                      !.observed = IF intersectionObserver
                                   THEN @ \cup (dom \ processedCards) ELSE @])

\* the items whose getCommuteTimeForAddress call has not returned
OutstandingCalls == {c \in DOMAIN tasks : tasks[c] = c}

\* the getCommuteTimeForAddress call of an item returns: the continuations of
\* all items awaiting it, the mutation callbacks, then their finally callbacks
ResolveDone(owner, outcome) ==
  /\ owner \in DOMAIN tasks
  /\ tasks[owner] = owner
  /\ outcome = ResolverOutcome(cardAddress[owner])
  /\ LET n == Cardinality({w \in DOMAIN tasks : tasks[w] = owner})
         s1 == MutationCallbacks(Continuations(St, owner, [kind |-> outcome], now), TRUE)
         s2 == Finallys(s1, n)
     IN Apply([s2 EXCEPT !.obs.dispatched = DOMAIN s2.tasks \ DOMAIN s1.tasks])

\* a session on search results pages
Next ==
  \/ \E u \in SearchUrls : PushState(u)
  \/ \E u \in SearchUrls : PopState(u)
  \/ \E hasElementNodes \in BOOLEAN : HostMutation(hasElementNodes)
  \/ HostAddCard
  \/ TimerSearch
  \/ PsrConfigured
  \/ PsrSettled
  \/ \E card \in Cards : Intersect(card)
  \/ DebounceFired
  \/ \E owner \in Cards, outcome \in Outcomes : ResolveDone(owner, outcome)

Spec == Init /\ [][Next]_vars

\* a search results page whose cards are all observed: the state when
\* processSearchResults has returned, and a session in which the cards come
\* into view and the calls return
InitQueueOn(cards, layouts) ==
  /\ href = "/for-rent/nyc"
  /\ currentUrl = href
  /\ widget = NoWidget
  /\ isProcessing = FALSE
  /\ lst = LstIdle
  /\ timers = [listing |-> 0, search |-> 0]
  /\ psr = [get |-> 0, settle |-> 0]
  /\ dom = cards
  /\ processedCards = {}
  /\ intersectionObserver = TRUE
  /\ observed = cards
  /\ searchResultsObserver = TRUE
  /\ searchResultsDebounceTimer = FALSE
  /\ requestQueue = <<>>
  /\ activeRequests = 0
  /\ pendingRequests = <<>>
  /\ tasks = <<>>
  /\ badge = [c \in Cards |-> "none"]
  /\ cardAddress \in layouts
  /\ obs = NoObs
  /\ call = NoCall
  /\ commuteCache = NewLRUCache(100, 30 * 60 * 1000)
  /\ now = 0
  /\ lastOp = NoOp
  /\ touchOrder = <<>>
  /\ lastSet = [k \in Keys |-> Never]
  /\ store \in {st \in Stores : st.workAddress # "" /\ st.apiKey # "" /\ ~st.workCoords}
  /\ rq = [pc |-> "idle"]
  /\ log = <<>>
InitQueue == InitQueueOn(Cards, CardLayouts)
NextQueue ==
  \/ \E card \in Cards : Intersect(card)
  \/ \E owner \in Cards, outcome \in Outcomes : ResolveDone(owner, outcome)
SpecQueue == InitQueue /\ [][NextQueue]_vars

\* the destinations the user saves in the popup
WorkAddresses == {"350 5th Ave, New York, NY", "1 Wall St, New York, NY"}

\* the service worker receives the message of a call: handleCommuteRequest reads
\* workAddress from chrome.storage.sync and computes against it
WorkerReads(owner) ==
  /\ owner \in OutstandingCalls
  /\ owner \notin DOMAIN obs.worker
  /\ Apply([St EXCEPT !.obs.worker = (owner :> store.workAddress) @@ @])

\* the popup saves another work address: the storage.onChanged listener of the
\* content script runs
WorkAddressChanged(workAddress) ==
  /\ workAddress # store.workAddress
  /\ store' = [store EXCEPT !.workAddress = workAddress]
  /\ commuteCache' = OnStorageChanged(commuteCache, {"workAddress"}, "sync")
  /\ UNCHANGED <<pageVars, now, cacheObs, rq, log, call>>

\* the call of an item returns with the times to the destination the service
\* worker read
ResolveDoneFor(owner) ==
  /\ owner \in OutstandingCalls
  /\ owner \in DOMAIN obs.worker
  /\ LET n == Cardinality({w \in DOMAIN tasks : tasks[w] = owner})
         result == [kind |-> ResolverOutcome(cardAddress[owner]),
                    workAddress |-> obs.worker[owner]]
         s1 == MutationCallbacks(Continuations(St, owner, result, now), TRUE)
         s2 == Finallys(s1, n)
     IN Apply([s2 EXCEPT !.obs.dispatched = DOMAIN s2.tasks \ DOMAIN s1.tasks,
                         !.obs.worker = Without(@, {owner})])

\* a stay on a search results page during which the destination is changed
NextDestination ==
  \/ \E card \in Cards : Intersect(card)
  \/ \E owner \in Cards : WorkerReads(owner)
  \/ \E workAddress \in WorkAddresses : WorkAddressChanged(workAddress)
  \/ \E owner \in Cards : ResolveDoneFor(owner)
SpecDestination == InitQueue /\ [][NextDestination]_vars

\* time passes
PageTick ==
  /\ now < MaxPageTicks * (commuteCache.ttlMs \div 2)
  /\ now' = now + commuteCache.ttlMs \div 2
  /\ UNCHANGED <<pageVars, commuteCache, cacheObs, resolveVars, call>>

\* a stay on one page, where every getCommuteTimeForAddress call returns
NextStay ==
  \/ PageTick
  \/ \E hasElementNodes \in BOOLEAN : HostMutation(hasElementNodes)
  \/ HostAddCard
  \/ TimerSearch
  \/ PsrConfigured
  \/ PsrSettled
  \/ \E card \in Cards : Intersect(card)
  \/ DebounceFired
  \/ \E owner \in Cards, outcome \in Outcomes : ResolveDone(owner, outcome)

\* the steps in which the call of an item returns: the ResolveDone steps of
\* that item, told by what they do to the awaiting items
ResolverReturns(owner) ==
  /\ owner \in OutstandingCalls
  /\ tasks' = Without(tasks, {w \in DOMAIN tasks : tasks[w] = owner})

SpecStay ==
  /\ InitStay
  /\ [][NextStay]_vars
  /\ \A owner \in Cards : WF_tasks(ResolverReturns(owner))

\* a session that starts on a search results page with all its cards observed,
\* in which the host navigates and every getCommuteTimeForAddress call returns
NextLeave ==
  \/ \E u \in SearchUrls : PushState(u)
  \/ \E hasElementNodes \in BOOLEAN : HostMutation(hasElementNodes)
  \/ TimerSearch
  \/ PsrConfigured
  \/ PsrSettled
  \/ \E card \in Cards : Intersect(card)
  \/ DebounceFired
  \/ \E owner \in Cards, outcome \in Outcomes : ResolveDone(owner, outcome)
InitLeave ==
  InitQueueOn(1..(MAX_CONCURRENT_REQUESTS + 1), {[c \in Cards |-> "a" \o ToString(c)]})
SpecLeave ==
  /\ InitLeave
  /\ [][NextLeave]_vars
  /\ \A owner \in Cards : WF_tasks(ResolverReturns(owner))

\* a session on listing pages
NextListing ==
  \/ \E u \in ListingUrls : PushState(u)
  \/ \E u \in ListingUrls : PopState(u)
  \/ \E hasElementNodes \in BOOLEAN : HostMutation(hasElementNodes)
  \/ TimerListing
  \/ \E markers \in BOOLEAN : WaitForContent(markers)
  \/ \E aboutBuilding, jsonLd \in ListingTexts : ListingContent(aboutBuilding, jsonLd)
  \/ \E outcome \in Outcomes : ListingResponse(outcome)

SpecListing == InitListing /\ [][NextListing]_vars

\* the same session with back and forward navigations observed
NextHistory ==
  \/ \E u \in ListingUrls : PushState(u)
  \/ \E u \in ListingUrls : BackForward(u)
  \/ \E hasElementNodes \in BOOLEAN : HostMutation(hasElementNodes)
  \/ TimerListing
  \/ \E markers \in BOOLEAN : WaitForContent(markers)
  \/ \E aboutBuilding, jsonLd \in ListingTexts : ListingContent(aboutBuilding, jsonLd)
  \/ \E outcome \in Outcomes : ListingResponse(outcome)
SpecHistory == InitListing /\ [][NextHistory]_vars

\* the same session when timers fire, the polling of waitForContent goes on and
\* the service worker answers
\* the steps in which a setTimeout(processListing, 500) fires, and the steps in
\* which processListing goes on after an await, told by what they do to the
\* timers and to the position of processListing
ListingTimerFires ==
  /\ timers.listing > 0
  /\ timers' = [timers EXCEPT !.listing = @ - 1]
ListingGoesOn ==
  \/ /\ lst.pc = "waitContent"
     /\ lst' \in {[lst EXCEPT !.waited = @ + contentInterval]}
                   \cup {[pc |-> "extract", markers |-> m, waited |-> w] :
                           m \in BOOLEAN, w \in {lst.waited, lst.waited + contentInterval}}
  \/ /\ lst.pc = "extract"
     /\ lst' \in {LstIdle} \cup {[pc |-> "request", url |-> u, stale |-> FALSE] :
                                   u \in ListingUrls}
  \/ /\ lst.pc = "request"
     /\ lst' = LstIdle
SpecListingFair ==
  /\ InitListing
  /\ [][NextListing]_vars
  /\ WF_timers(ListingTimerFires)
  /\ WF_lst(ListingGoesOn)

(***************************************************************************)
(* Content script: getCommuteTimeForAddress                                *)
(***************************************************************************)
maxRetries == 2

PermanentErrors_NoConfig ==
  <<"not found", "invalid", "No transit route", "wrong location",
    "not in NYC", "No path">>

PermanentErrors ==
  <<"not found", "invalid", "No transit route", "wrong location",
    "not in NYC", "No path", "Please set">>

\* permanentErrors.some(e => response.error.includes(e))
IsPermanent(error) ==
  \E i \in 1..Len(PermanentErrors) : Includes(error, PermanentErrors[i])

\* a loop that stops one attempt early
LoopContinues_Short(attempt) == attempt < maxRetries

\* for (...; attempt <= maxRetries; ...)
LoopContinues(attempt) == attempt <= maxRetries

\* sleep(500 * attempt)
BackoffMs(attempt) == 500 * attempt

\* truthiness of response.error
HasError(response) == "error" \in DOMAIN response /\ response.error # ""

Addresses == {"a1"}
RqIdle == [pc |-> "idle"]

InitResolveIdle ==
  /\ store = [workAddress |-> "350 5th Ave, New York, NY", apiKey |-> "KEY",
              workCoords |-> FALSE]
  /\ rq = RqIdle
  /\ log = <<>>

\* the call and its first attempt: chrome.runtime.sendMessage is issued
\* without a wait
GcStart(address) ==
  /\ rq.pc \in {"idle", "done"}
  /\ rq' = [pc |-> "sent", address |-> address, attempt |-> 0,
            lastError |-> "", sent |-> 1, waits |-> <<0>>]
  /\ log' = <<>>
  /\ UNCHANGED <<store, cacheVars, cacheObs, pageVars, call>>

\* end of one loop iteration without a return: attempt++ and the loop test
GcContinue(r, lastError) ==
  IF LoopContinues(r.attempt + 1)
  THEN [r EXCEPT !.pc = "sleep", !.attempt = r.attempt + 1, !.lastError = lastError]
  ELSE [pc |-> "done", address |-> r.address, attempt |-> r.attempt + 1,
        lastError |-> lastError, sent |-> r.sent, waits |-> r.waits,
        result |-> [error |-> IF lastError # "" THEN lastError
                              ELSE "Failed after retries",
                    address |-> r.address]]

GcReturn(r, lastError, result) ==
  [pc |-> "done", address |-> r.address, attempt |-> r.attempt,
   lastError |-> lastError, sent |-> r.sent, waits |-> r.waits, result |-> result]

\* sendMessage rejects (no receiver, context invalidated)
GcThrown ==
  /\ rq.pc = "sent"
  /\ rq' = GcContinue(rq, "API error")
  /\ log' = <<[kind |-> "throw"]>>
  /\ UNCHANGED <<store, cacheVars, cacheObs, pageVars, call>>

\* sendMessage resolves with undefined
GcNoResponse ==
  /\ rq.pc = "sent"
  /\ rq' = GcContinue(rq, "No response from service worker")
  /\ log' = <<[kind |-> "empty"]>>
  /\ UNCHANGED <<store, cacheVars, cacheObs, pageVars, call>>

\* the service worker handles the request and its response is processed
GcResponse(apt, work, route) ==
  /\ rq.pc = "sent"
  /\ \E outcome \in handleCommuteRequest(store, apt, work, route) :
       LET response == onMessage(outcome) IN
       /\ rq' = IF HasError(response)
                THEN IF IsPermanent(response.error)
                     THEN GcReturn(rq, response.error,
                                   [error |-> response.error, address |-> rq.address])
                     ELSE GcContinue(rq, response.error)
                ELSE GcReturn(rq, rq.lastError,
                              [time |-> IF response.morning.text # ""
                                        THEN response.morning.text ELSE "N/A",
                               address |-> rq.address])
       /\ log' = <<[kind |-> "reply", response |-> response,
                    fetches |-> outcome.fetches,
                    configured |-> (store.workAddress # "" /\ store.apiKey # "")]>>
  /\ UNCHANGED <<store, cacheVars, cacheObs, pageVars, call>>

\* the backoff of a retry is over: sendMessage is issued again
GcWake ==
  /\ rq.pc = "sleep"
  /\ rq' = [rq EXCEPT !.pc = "sent", !.sent = rq.sent + 1,
                      !.waits = Append(rq.waits, BackoffMs(rq.attempt))]
  /\ log' = <<>>
  /\ UNCHANGED <<store, cacheVars, cacheObs, pageVars, call>>

\* the popup saves settings
StoreWrite(st) ==
  /\ st # store
  /\ store' = st
  /\ UNCHANGED <<rq, log, cacheVars, cacheObs, pageVars, call>>

InitResolve ==
  /\ InitPageIdle
  /\ store \in Stores
  /\ rq = RqIdle
  /\ log = <<>>
  /\ commuteCache = NewLRUCache(maxSize, ttlMs)
  /\ now = 0
  /\ lastOp = NoOp
  /\ touchOrder = <<>>
  /\ lastSet = [k \in Keys |-> Never]

NextResolve ==
  \/ \E address \in Addresses : GcStart(address)
  \/ GcThrown
  \/ GcNoResponse
  \/ \E sc \in ApiScenarios : GcResponse(sc.apt, sc.work, sc.route)
  \/ GcWake
  \/ \E st \in Stores : StoreWrite(st)

SpecResolve == InitResolve /\ [][NextResolve]_vars

(***************************************************************************)
(* The cache driven by arbitrary calls and a clock                         *)
(***************************************************************************)
InitCache ==
  /\ InitResolveIdle
  /\ InitPageIdle
  /\ commuteCache = NewLRUCache(maxSize, ttlMs)
  /\ now = 0
  /\ lastOp = NoOp
  /\ touchOrder = <<>>
  /\ lastSet = [k \in Keys |-> Never]

CacheHas(key) ==
  LET h == LRUHas(commuteCache, key, now) IN
  /\ commuteCache' = h.self
  /\ lastOp' = [op |-> "has", key |-> key, ret |-> h.ret, set |-> lastSet[key]]
  /\ lastSet' = Drop(lastSet, MapKeys(commuteCache.cache) \ MapKeys(h.self.cache))
  /\ touchOrder' = Forget(touchOrder, MapKeys(commuteCache.cache) \ MapKeys(h.self.cache))
  /\ UNCHANGED <<now, resolveVars, pageVars, call>>

CacheGet(key) ==
  LET g == LRUGet(commuteCache, key, now) IN
  /\ commuteCache' = g.self
  /\ lastOp' = [op |-> "get", key |-> key, ret |-> g.ret, set |-> lastSet[key]]
  /\ touchOrder' = IF g.ret # Undefined THEN Touch(touchOrder, key)
                   ELSE Forget(touchOrder, MapKeys(commuteCache.cache) \ MapKeys(g.self.cache))
  /\ lastSet' = Drop(lastSet, MapKeys(commuteCache.cache) \ MapKeys(g.self.cache))
  /\ UNCHANGED <<now, resolveVars, pageVars, call>>

CacheSet(key, value) ==
  LET s == LRUSet(commuteCache, key, value, now) IN
  /\ commuteCache' = s.self
  /\ lastOp' = [op |-> "set", key |-> key,
                present |-> MapHas(commuteCache.cache, key),
                sizeBefore |-> LRUSize(commuteCache),
                lru |-> LeastRecentlyTouched(commuteCache.cache, touchOrder),
                lruTimestamp |->
                  IF LRUSize(commuteCache) = 0 THEN -1
                  ELSE MapGet(commuteCache.cache,
                              LeastRecentlyTouched(commuteCache.cache, touchOrder)).timestamp,
                evicted |-> s.evicted, iters |-> s.iters,
                terminated |-> s.terminated]
  /\ touchOrder' = Touch(Forget(touchOrder, s.evicted), key)
  /\ lastSet' = [Drop(lastSet, s.evicted) EXCEPT ![key] = [at |-> now, live |-> TRUE]]
  /\ UNCHANGED <<now, resolveVars, pageVars, call>>

CacheClear ==
  /\ commuteCache' = LRUClear(commuteCache)
  /\ lastOp' = [op |-> "clear"]
  /\ lastSet' = Drop(lastSet, Keys)
  /\ touchOrder' = <<>>
  /\ UNCHANGED <<now, resolveVars, pageVars, call>>

StorageChanged(changes, areaName) ==
  /\ commuteCache' = OnStorageChanged(commuteCache, changes, areaName)
  /\ lastOp' = [op |-> "changed", changes |-> changes, areaName |-> areaName,
                sizeBefore |-> LRUSize(commuteCache),
                same |-> (commuteCache' = commuteCache)]
  /\ lastSet' = Drop(lastSet, MapKeys(commuteCache.cache) \ MapKeys(commuteCache'.cache))
  /\ touchOrder' = Forget(touchOrder, MapKeys(commuteCache.cache) \ MapKeys(commuteCache'.cache))
  /\ UNCHANGED <<now, resolveVars, pageVars, call>>

Tick ==
  /\ now < MaxNow
  /\ now' = now + 1
  /\ lastOp' = [op |-> "tick"]
  /\ UNCHANGED <<commuteCache, touchOrder, lastSet, resolveVars, pageVars, call>>

NextCache ==
  \/ \E key \in Keys : CacheHas(key)
  \/ \E key \in Keys : CacheGet(key)
  \/ \E key \in Keys, value \in Values : CacheSet(key, value)
  \/ CacheClear
  \/ \E changes \in (SUBSET StoreKeys) \ {{}}, areaName \in Areas :
       StorageChanged(changes, areaName)
  \/ Tick

SpecCache == InitCache /\ [][NextCache]_vars

(***************************************************************************)
(* Content script: the page class chosen for a location                    *)
(***************************************************************************)
\* the segments of a path
MaxSegments == 3
PathSegments ==
  {"", "for-rent", "for-sale", "building", "rental", "sale", "nyc", "123", "12a", "x"}

RECURSIVE PathsOf(_)
PathsOf(n) ==
  IF n = 0 THEN {""}
  ELSE {p \o "/" \o seg : p \in PathsOf(n - 1), seg \in PathSegments}

Paths == UNION {PathsOf(n) : n \in 1..MaxSegments}

\* if (isListingPage()) ... else if (isSearchResultsPage()) ...
PageClass(h) ==
  IF isListingPage(h) THEN "Listing"
  ELSE IF isSearchResultsPage(h) THEN "SearchResults"
  ELSE "Inert"

CallsUnchanged == UNCHANGED <<cacheVars, cacheObs, resolveVars, pageVars>>

Classify(h) ==
  /\ call = NoCall
  /\ call' = [fn |-> "PageClass", path |-> h, ret |-> PageClass(h)]
  /\ CallsUnchanged

InitClassify == InitCache
NextClassify == \E h \in Paths : Classify(h)
SpecClassify == InitClassify /\ [][NextClassify]_vars

(***************************************************************************)
(* Content script: extractAddress, in the content script with search       *)
(* results support and in content/content.js                               *)
(***************************************************************************)
\* what an element or a strategy can yield
PageTexts == {Null, "", "TBD", "Loading...", " 12 Main St ", "150 E 44th St, New York"}
StrategyOutputs == {Null, "Loading...", "12 Main St", "9 Elm Ave, Brooklyn"}

\* extractAddress of content/content.js: the first truthy result of the
\* strategies JSON-LD, Meta Tags, Page Title, DOM Elements, URL Parsing
RECURSIVE extractAddressByStrategies(_)
extractAddressByStrategies(results) ==
  IF Len(results) = 0 THEN Null
  ELSE IF Head(results) # Null /\ Head(results) # "" THEN Head(results)
       ELSE extractAddressByStrategies(Tail(results))

ExtractAddress(aboutBuilding, jsonLd) ==
  /\ call = NoCall
  /\ call' = [fn |-> "extractAddress",
              outputs |-> <<IF aboutBuilding = Null THEN Null ELSE trim(aboutBuilding),
                            jsonLd>>,
              ret |-> extractAddress(aboutBuilding, jsonLd)]
  /\ CallsUnchanged

ExtractAddressByStrategies(results) ==
  /\ call = NoCall
  /\ call' = [fn |-> "extractAddress (content/content.js)", outputs |-> results,
              ret |-> extractAddressByStrategies(results)]
  /\ CallsUnchanged

InitExtract == InitCache
NextExtract ==
  \/ \E aboutBuilding \in PageTexts, jsonLd \in PageTexts :
        ExtractAddress(aboutBuilding, jsonLd)
  \/ \E results \in [1..5 -> StrategyOutputs] : ExtractAddressByStrategies(results)
SpecExtract == InitExtract /\ [][NextExtract]_vars

(***************************************************************************)
(* Content script: isValidExtractedAddress and extractAddressFromCard      *)
(***************************************************************************)
UpperChar(ch) ==
  IF \E i \in 1..26 : CharAt(LowerCaseLetters, i) = ch
  THEN CharAt(UpperCaseLetters, CHOOSE i \in 1..26 : CharAt(LowerCaseLetters, i) = ch)
  ELSE ch

RECURSIVE toUpperCase(_)
toUpperCase(s) ==
  IF Len(s) = 0 THEN ""
  ELSE IF Len(s) = 1 THEN UpperChar(s)
  ELSE toUpperCase(SubSeq(s, 1, Len(s) \div 2))
         \o toUpperCase(SubSeq(s, Len(s) \div 2 + 1, Len(s)))

Capitalized(s) ==
  IF Len(s) = 0 THEN "" ELSE UpperChar(CharAt(s, 1)) \o SubSeq(s, 2, Len(s))

RECURSIVE Repeat(_, _)
Repeat(s, n) == IF n = 0 THEN "" ELSE s \o Repeat(s, n - 1)

\* the texts handed to the validator
PlaceholderTexts ==
  {"loading", "loading...", "error", "n/a", "tbd", "pending", "unavailable", "unknown",
   "null", "undefined", "...", ".....", "-", "-----", "_", "_______"}
\* how often a street name is repeated in a long text
MaxRepeat == 14
LongTexts == {Repeat("12 Main Street ", n) : n \in 13..MaxRepeat}
OtherTexts ==
  {"", "1 A", " NY ", "12345 67890", "(212) 555-0100", "hello world", "12 Main St",
   "150 East 44th Street #48F", "Error 404 page", "Pending sale at 12 Main St",
   "Brooklyn", "9 Elm Ave | StreetEasy", "10001"}
ValidatorTexts ==
  {pad \o t \o pad : pad \in {"", "  "},
                     t \in PlaceholderTexts
                            \cup {toUpperCase(w) : w \in PlaceholderTexts}
                            \cup {Capitalized(w) : w \in PlaceholderTexts}
                            \cup LongTexts \cup OtherTexts}

NJ_CITIES ==
  {"bayonne", "cliffside park", "east newark", "edgewater", "fort lee", "guttenberg",
   "harrison", "hoboken", "jersey city", "kearny", "north bergen", "secaucus",
   "union city", "weehawken", "west new york"}
JERSEY_CITY_NEIGHBORHOODS ==
  {"bergen/lafayette", "historic downtown", "journal square", "mcginley square",
   "newport", "the heights", "waterfront", "paulus hook", "west side"}

\* a card: the text of its address link, of the first element matched by an
\* address class selector, of its first link, and the neighborhood read from
\* its title (Null where there is none)
CardTexts ==
  {Null, "", "Loading...", "150 East 44th Street #48F", "N/A",
   "88  Greenwich St #12A | StreetEasy"} \cup LongTexts
CardNodes ==
  [addressLink : CardTexts, addressElement : {Null, "TBD", "12 Main St - For Rent"},
   link : {Null, "See details", "9 Elm Ave"},
   neighborhood : {Null, "Hoboken", "Newport", "MIDTOWN"}]

\* the street address chosen by the three strategies of extractAddressFromCard
StreetAddressOf(card) ==
  IF card.addressLink # Null /\ Len(trim(card.addressLink)) > 0
  THEN trim(card.addressLink)
  ELSE IF /\ card.addressElement # Null
          /\ Len(trim(card.addressElement)) > 0
          /\ isAddressLike(trim(card.addressElement))
          /\ Len(trim(card.addressElement)) < 100
       THEN cleanAddress(trim(card.addressElement))
       ELSE IF /\ card.link # Null
               /\ isAddressLike(trim(card.link))
               /\ Len(trim(card.link)) < 100
            THEN trim(card.link)
            ELSE Null

extractAddressFromCard_CaseSensitive(card) ==
  IF StreetAddressOf(card) = Null THEN [street |-> Null, ret |-> Null]
  ELSE LET streetAddress == cleanAddress(StreetAddressOf(card)) IN
       IF ~isValidExtractedAddress(streetAddress)
       THEN [street |-> streetAddress, ret |-> Null]
       ELSE [street |-> streetAddress,
             ret |-> IF card.neighborhood = Null
                     THEN streetAddress \o ", New York, NY"
                     ELSE IF card.neighborhood \in NJ_CITIES
                     THEN streetAddress \o ", " \o card.neighborhood \o ", NJ"
                     ELSE IF card.neighborhood \in JERSEY_CITY_NEIGHBORHOODS
                     THEN streetAddress \o ", Jersey City, NJ"
                     ELSE streetAddress \o ", New York, NY"]

\* extractAddressFromCard: the cleaned street address and the value returned
extractAddressFromCard(card) ==
  IF StreetAddressOf(card) = Null THEN [street |-> Null, ret |-> Null]
  ELSE LET streetAddress == cleanAddress(StreetAddressOf(card)) IN
       IF ~isValidExtractedAddress(streetAddress)
       THEN [street |-> streetAddress, ret |-> Null]
       ELSE [street |-> streetAddress,
             ret |-> IF card.neighborhood = Null
                     THEN streetAddress \o ", New York, NY"
                     ELSE IF toLowerCase(card.neighborhood) \in NJ_CITIES
                     THEN streetAddress \o ", " \o card.neighborhood \o ", NJ"
                     ELSE IF toLowerCase(card.neighborhood) \in JERSEY_CITY_NEIGHBORHOODS
                     THEN streetAddress \o ", Jersey City, NJ"
                     ELSE streetAddress \o ", New York, NY"]

Validate(text) ==
  /\ call = NoCall
  /\ call' = [fn |-> "isValidExtractedAddress", text |-> text,
              ret |-> isValidExtractedAddress(text)]
  /\ CallsUnchanged

ExtractAddressFromCard(card) ==
  /\ call = NoCall
  /\ call' = [fn |-> "extractAddressFromCard", card |-> card,
              street |-> extractAddressFromCard(card).street,
              ret |-> extractAddressFromCard(card).ret]
  /\ CallsUnchanged

InitValidate == InitCache
NextValidate ==
  \/ \E text \in ValidatorTexts : Validate(text)
  \/ \E card \in CardNodes : ExtractAddressFromCard(card)
SpecValidate == InitValidate /\ [][NextValidate]_vars

(***************************************************************************)
(* Content script: where the listing widget is inserted.  A document is    *)
(* the elements under body in document order, each with its depth: the     *)
(* parent of an element is the nearest earlier element one level up.       *)
(***************************************************************************)
\* the number of elements under body
MaxNodes == 3
Body == 0
NoNode == 0 - 1

Element(tag, class, role, offsetParent) ==
  [tag |-> tag, class |-> class, role |-> role, offsetParent |-> offsetParent]
Elements ==
  { Element("h1", "", "", TRUE), Element("h1", "", "", FALSE),
    Element("a", "", "", TRUE), Element("a", "address-link", "", TRUE),
    Element("div", "", "", TRUE), Element("div", "listing-title", "", TRUE),
    Element("main", "", "", TRUE), Element("div", "", "main", TRUE) }
Depths(n) ==
  {d \in [1..n -> 1..n] : \A i \in 1..n : d[i] <= (IF i = 1 THEN 1 ELSE d[i - 1] + 1)}
Document(depth, node) == [depth |-> depth, node |-> node]

Least(S) == CHOOSE x \in S : \A y \in S : x <= y
Greatest(S) == CHOOSE x \in S : \A y \in S : x >= y

parentNode(doc, n) ==
  IF doc.depth[n] = 1 THEN Body
  ELSE Greatest({m \in 1..(n - 1) : doc.depth[m] = doc.depth[n] - 1})
nextSibling(doc, n) ==
  LET later == {m \in (n + 1)..Len(doc.depth) : parentNode(doc, m) = parentNode(doc, n)}
  IN IF later = {} THEN NoNode ELSE Least(later)
previousSibling(doc, n) ==
  LET earlier == {m \in 1..(n - 1) : parentNode(doc, m) = parentNode(doc, n)}
  IN IF earlier = {} THEN NoNode ELSE Greatest(earlier)

\* element.closest('a')
RECURSIVE closestLink(_, _)
closestLink(doc, n) ==
  IF n = Body THEN NoNode
  ELSE IF doc.node[n].tag = "a" THEN n
  ELSE closestLink(doc, parentNode(doc, n))

\* the selectors of findInsertionPoint
TagSelector(tag) == [by |-> "tag", value |-> tag]
ClassContains(part) == [by |-> "class*=", value |-> part]
ClassSelector(class) == [by |-> "class", value |-> class]
RoleSelector(role) == [by |-> "role", value |-> role]
addressSelectors ==
  << TagSelector("h1"), ClassContains("address"), ClassContains("Address"),
     ClassContains("title"), ClassSelector("details-header"),
     ClassSelector("listing-details") >>
Matches(element, selector) ==
  CASE selector.by = "tag" -> element.tag = selector.value
    [] selector.by = "class*=" -> Includes(element.class, selector.value)
    [] selector.by = "class" -> element.class = selector.value
    [] selector.by = "role" -> element.role = selector.value
\* document.querySelector: the first match in document order
querySelector(doc, selector) ==
  LET found == {n \in 1..Len(doc.depth) : Matches(doc.node[n], selector)}
  IN IF found = {} THEN NoNode ELSE Least(found)

RECURSIVE findInsertionPointFrom(_, _)
findInsertionPointFrom(doc, i) ==
  IF i > Len(addressSelectors)
  THEN LET mainContent ==
             IF querySelector(doc, TagSelector("main")) # NoNode
             THEN querySelector(doc, TagSelector("main"))
             ELSE querySelector(doc, RoleSelector("main"))
       IN IF mainContent # NoNode
          THEN [element |-> mainContent, position |-> "prepend"]
          ELSE [element |-> NoNode, position |-> Undefined]
  ELSE LET element == querySelector(doc, addressSelectors[i])
       IN IF element # NoNode /\ doc.node[element].offsetParent
          THEN [element |-> element, position |-> "after"]
          ELSE findInsertionPointFrom(doc, i + 1)
findInsertionPoint(doc) == findInsertionPointFrom(doc, 1)

\* where the widget is once inserted: its parent and its previous sibling
InsertBefore(doc, parent, reference) ==
  [parent |-> parent,
   previousSibling |->
     IF reference = NoNode
     THEN LET children == {m \in 1..Len(doc.depth) : parentNode(doc, m) = parent}
          IN IF children = {} THEN NoNode ELSE Greatest(children)
     ELSE previousSibling(doc, reference)]
InsertAfter(doc, n) ==
  [parent |-> parentNode(doc, n), previousSibling |-> n]
Prepend(parent) == [parent |-> parent, previousSibling |-> NoNode]

insertWidgetSafely(doc, insertionPoint) ==
  LET element == insertionPoint.element
      linkAncestor == closestLink(doc, element)
      insertionElement == IF linkAncestor # NoNode THEN linkAncestor ELSE element
  IN IF insertionPoint.position = "after"
     THEN InsertAfter(doc, insertionElement)
     ELSE IF insertionPoint.position = "before"
     THEN InsertBefore(doc, parentNode(doc, insertionElement), insertionElement)
     ELSE IF linkAncestor # NoNode
     THEN InsertAfter(doc, insertionElement)
     ELSE Prepend(insertionElement)

\* the insertion at the end of injectWidget
injectWidgetInto(doc) ==
  LET insertionPoint == findInsertionPoint(doc)
  IN IF insertionPoint.element # NoNode
     THEN insertWidgetSafely(doc, insertionPoint)
     ELSE Prepend(Body)

InjectWidget(doc) ==
  /\ call = NoCall
  /\ call' = [fn |-> "injectWidget", doc |-> doc,
              insertionPoint |-> findInsertionPoint(doc),
              widget |-> injectWidgetInto(doc)]
  /\ CallsUnchanged

InitInsert == InitCache
NextInsert ==
  /\ call = NoCall
  /\ \E n \in 0..MaxNodes : \E depth \in Depths(n) : \E node \in [1..n -> Elements] :
       InjectWidget(Document(depth, node))
SpecInsert == InitInsert /\ [][NextInsert]_vars

(***************************************************************************)
(* Service worker: the request URLs and their form in the debug trace      *)
(***************************************************************************)
GEOAPIFY_GEOCODE_URL == "https://api.geoapify.com/v1/geocode/search"
GEOAPIFY_ROUTING_URL == "https://api.geoapify.com/v1/routing"
NYC_CENTER == [lat |-> "40.785091", lon |-> "-73.968285"]

\* the application/x-www-form-urlencoded serializer of URLSearchParams
PercentCodes ==
  [c \in {" ", "+", ",", ":", "|", "/", "=", "&", "%", "#", "$"} |->
     CASE c = " " -> "+"
       [] c = "+" -> "%2B"
       [] c = "," -> "%2C"
       [] c = ":" -> "%3A"
       [] c = "|" -> "%7C"
       [] c = "/" -> "%2F"
       [] c = "=" -> "%3D"
       [] c = "&" -> "%26"
       [] c = "%" -> "%25"
       [] c = "#" -> "%23"
       [] c = "$" -> "%24"]
RECURSIVE FormEncode(_)
FormEncode(s) ==
  IF Len(s) = 0 THEN ""
  ELSE LET c == CharAt(s, 1)
       IN (IF c \in DOMAIN PercentCodes THEN PercentCodes[c] ELSE c)
            \o FormEncode(SubSeq(s, 2, Len(s)))
RECURSIVE URLSearchParams(_)
URLSearchParams(params) ==
  IF Len(params) = 0 THEN ""
  ELSE FormEncode(params[1][1]) \o "=" \o FormEncode(params[1][2])
         \o (IF Len(params) > 1 THEN "&" ELSE "")
         \o URLSearchParams(Tail(params))

\* String.prototype.replace with a string pattern: the first occurrence
ReplaceFirst(s, pattern, replacement) ==
  LET at == {i \in 1..(Len(s) - Len(pattern) + 1) :
               SubSeq(s, i, i + Len(pattern) - 1) = pattern}
  IN IF at = {} THEN s
     ELSE LET i == CHOOSE i \in at : \A j \in at : i <= j
          IN SubSeq(s, 1, i - 1) \o replacement \o SubSeq(s, i + Len(pattern), Len(s))

\* geocodeAddress: the URL fetched
GeocodeUrl(address, apiKey) ==
  GEOAPIFY_GEOCODE_URL \o "?" \o
  URLSearchParams(<< <<"text", address>>, <<"apiKey", apiKey>>, <<"limit", "1">>,
                     <<"filter", "countrycode:us">>,
                     <<"bias", "proximity:" \o NYC_CENTER.lon \o "," \o NYC_CENTER.lat>> >>)
\* fetchTransitRoute: the URL fetched
RoutingUrl(from, to, apiKey) ==
  GEOAPIFY_ROUTING_URL \o "?" \o
  URLSearchParams(<< <<"waypoints", from.lat \o "," \o from.lon \o "|" \o to.lat \o "," \o to.lon>>,
                     <<"mode", "transit">>, <<"apiKey", apiKey>> >>)
\* the url of a debug step
Redacted(url, apiKey) == ReplaceFirst(url, apiKey, "REDACTED")

ApiKeys == {"KEY", "0f3a9c", "k+1", "73", "my key"}
TracedAddresses ==
  {"12 Main St", "150 E 44th St, New York", "KEY Food, Brooklyn", "9 Elm Ave #3",
   "88 Greenwich St"}
Coordinates ==
  {[lat |-> "40.75", lon |-> "-73.97"], [lat |-> "40.68", lon |-> "-73.94"],
   [lat |-> "40.7", lon |-> "-74.0"], [lat |-> "40.81", lon |-> "-73.96"]}

\* the step geocodeAddress pushes before its fetch
GeocodeStep(address, apiKey, label) ==
  /\ call = NoCall
  /\ call' = [fn |-> "geocodeAddress", apiKey |-> apiKey,
              fetched |-> GeocodeUrl(address, apiKey),
              step |-> [step |-> "Geocoding " \o label,
                        url |-> Redacted(GeocodeUrl(address, apiKey), apiKey)]]
  /\ CallsUnchanged
\* the step fetchTransitRoute pushes before its fetch
RoutingStep(from, to, apiKey) ==
  /\ call = NoCall
  /\ call' = [fn |-> "fetchTransitRoute", apiKey |-> apiKey,
              fetched |-> RoutingUrl(from, to, apiKey),
              step |-> [step |-> "Routing API Request",
                        url |-> Redacted(RoutingUrl(from, to, apiKey), apiKey)]]
  /\ CallsUnchanged

InitTrace == InitCache
NextTrace ==
  \/ /\ call = NoCall
     /\ \E address \in TracedAddresses : \E apiKey \in ApiKeys :
          \E label \in {"Apartment", "Work"} : GeocodeStep(address, apiKey, label)
  \/ /\ call = NoCall
     /\ \E from \in Coordinates : \E to \in Coordinates : \E apiKey \in ApiKeys :
          RoutingStep(from, to, apiKey)
SpecTrace == InitTrace /\ [][NextTrace]_vars

(***************************************************************************)
(* Service worker: formatDuration                                          *)
(***************************************************************************)
\* the largest number of minutes formatted
MaxMinutes == 130

FormatDuration(minutes) ==
  /\ call = NoCall
  /\ call' = [fn |-> "formatDuration", minutes |-> minutes, ret |-> formatDuration(minutes)]
  /\ CallsUnchanged

InitFormat == InitCache
NextFormat == call = NoCall /\ \E minutes \in 0..MaxMinutes : FormatDuration(minutes)
SpecFormat == InitFormat /\ [][NextFormat]_vars

(***************************************************************************)
(* Content script: getNextMondayAt8AM.  A Date is a local day, counted     *)
(* from Thursday 1 January 1970, with hour and minute; getTimezoneOffset   *)
(* is UTC minus local time in minutes.                                     *)
(***************************************************************************)
\* the days on which the function is called
MaxDays == 13
TimezoneOffsets == {300, 240, 0, 0 - 60}

getDay(date) == (date.day + 4) % 7
\* Date.prototype.getTime in seconds, for the offset in force on that date
getTimeSeconds(date, timezoneOffset) ==
  ((date.day * 24 + date.hour) * 60 + date.minute + timezoneOffset) * 60

getNextMondayAt8AM_ModuloOnly(current, timezoneOffset) ==
  LET dayOfWeek == getDay(current)
      daysUntilMonday == (8 - dayOfWeek) % 7
      nextMonday == [day |-> current.day + daysUntilMonday, hour |-> 8, minute |-> 0]
      offsetSeconds == timezoneOffset * 60
  IN getTimeSeconds(nextMonday, timezoneOffset) - offsetSeconds

\* getNextMondayAt8AM; timezoneOffset is nextMonday.getTimezoneOffset()
getNextMondayAt8AM(current, timezoneOffset) ==
  LET dayOfWeek == getDay(current)
      daysUntilMonday ==
        IF dayOfWeek = 1 THEN (IF current.hour < 8 THEN 0 ELSE 7)
        ELSE IF dayOfWeek = 0 THEN 1
        ELSE (8 - dayOfWeek) % 7
      nextMonday == [day |-> current.day + daysUntilMonday, hour |-> 8, minute |-> 0]
      offsetSeconds == timezoneOffset * 60
  IN getTimeSeconds(nextMonday, timezoneOffset) - offsetSeconds

GetNextMondayAt8AM(current, timezoneOffset) ==
  /\ call = NoCall
  /\ call' = [fn |-> "getNextMondayAt8AM", now |-> current,
              ret |-> getNextMondayAt8AM(current, timezoneOffset)]
  /\ CallsUnchanged

InitMonday == InitCache
NextMonday ==
  /\ call = NoCall
  /\ \E day \in 0..MaxDays : \E hour \in 0..23 : \E minute \in {0, 30, 59} :
       \E timezoneOffset \in TimezoneOffsets :
         GetNextMondayAt8AM([day |-> day, hour |-> hour, minute |-> minute],
                            timezoneOffset)
SpecMonday == InitMonday /\ [][NextMonday]_vars

(***************************************************************************)
(* Content script: waitForDomToSettle.  Time is in milliseconds from the    *)
(* call; a timer runs when its delay has passed.                            *)
(***************************************************************************)
checkInterval == 50
DefaultStabilityThreshold == 300
DefaultMaxWait == 2000
SearchResultsMaxWait == 3000
\* the arguments of the two callers, waitForContent and processSearchResults
SettleArguments ==
  {[stabilityThreshold |-> DefaultStabilityThreshold, maxWait |-> DefaultMaxWait],
   [stabilityThreshold |-> DefaultStabilityThreshold, maxWait |-> SearchResultsMaxWait]}
\* the instants at which the page can change the DOM
Granularity == checkInterval \div 2
NoTimer == 0 - 1

\* the executor of the promise: the observer, the initial stability timer and
\* the safety interval
waitForDomToSettle(stabilityThreshold, maxWait) ==
  [fn |-> "waitForDomToSettle",
   stabilityThreshold |-> stabilityThreshold, maxWait |-> maxWait,
   elapsed |-> 0,
   observing |-> TRUE,
   timeoutId |-> stabilityThreshold,
   safetyInterval |-> checkInterval,
   totalWaited |-> 0,
   resolvedAt |-> NoTimer,
   lastMutation |-> 0]

resolve(w) == IF w.resolvedAt = NoTimer THEN [w EXCEPT !.resolvedAt = w.elapsed] ELSE w

\* the MutationObserver callback: the stability timer starts again
observerCallback(w) ==
  [w EXCEPT !.timeoutId = w.elapsed + w.stabilityThreshold,
            !.lastMutation = w.elapsed]

\* the callback of the stability timer
stabilityTimeout(w) == resolve([w EXCEPT !.timeoutId = NoTimer, !.observing = FALSE])

\* a safety interval that only counts
safetyIntervalCallback_NoCap(w) ==
  [w EXCEPT !.totalWaited = @ + checkInterval,
            !.safetyInterval = w.elapsed + checkInterval]

\* the callback of the safety interval
safetyIntervalCallback(w) ==
  LET totalWaited == w.totalWaited + checkInterval IN
  IF totalWaited >= w.maxWait
  THEN resolve([w EXCEPT !.totalWaited = totalWaited,
                         !.safetyInterval = NoTimer,
                         !.timeoutId = NoTimer,
                         !.observing = FALSE])
  ELSE [w EXCEPT !.totalWaited = totalWaited,
                 !.safetyInterval = w.elapsed + checkInterval]

WaitForDomToSettle(arguments) ==
  /\ call = NoCall
  /\ call' = waitForDomToSettle(arguments.stabilityThreshold, arguments.maxWait)
  /\ CallsUnchanged

Settling == call # NoCall /\ call.fn = "waitForDomToSettle"

\* the page adds or removes nodes under document.body
DomMutation ==
  /\ Settling
  /\ call.observing
  /\ call.lastMutation # call.elapsed
  /\ call' = observerCallback(call)
  /\ CallsUnchanged

StabilityTimeout ==
  /\ Settling
  /\ call.timeoutId = call.elapsed
  /\ call' = stabilityTimeout(call)
  /\ CallsUnchanged

SafetyInterval ==
  /\ Settling
  /\ call.safetyInterval = call.elapsed
  /\ call' = safetyIntervalCallback(call)
  /\ CallsUnchanged

\* time passes up to the next instant, and not past a timer that is due
SettleTick ==
  /\ Settling
  /\ call.timeoutId # call.elapsed
  /\ call.safetyInterval # call.elapsed
  /\ call.timeoutId # NoTimer \/ call.safetyInterval # NoTimer
  /\ call.elapsed < call.maxWait + checkInterval
  /\ call' = [call EXCEPT !.elapsed = @ + Granularity]
  /\ CallsUnchanged

InitSettle == InitCache
NextSettle ==
  \/ \E arguments \in SettleArguments : WaitForDomToSettle(arguments)
  \/ DomMutation
  \/ StabilityTimeout
  \/ SafetyInterval
  \/ SettleTick
SpecSettle == InitSettle /\ [][NextSettle]_vars

(***************************************************************************)
(* Content script: the debounced rescan of setupSearchResultsObserver, with *)
(* time in milliseconds from the installation of the observers.            *)
(***************************************************************************)
debounceMs == 200
\* how many instants of a stay on the page are followed
MaxDebounceTicks == 8
DebounceStep == debounceMs \div 2

\* the page when processSearchResults has installed both observers
setupSearchResultsObserver(cards, processed) ==
  [fn |-> "setupSearchResultsObserver",
   elapsed |-> 0,
   dom |-> cards,
   processedCards |-> processed,
   intersectionObserver |-> TRUE,
   observed |-> cards \ processed,
   searchResultsObserver |-> TRUE,
   searchResultsDebounceTimer |-> NoTimer,
   lastMutation |-> NoTimer,
   rescans |-> 0,
   cancelled |-> FALSE]

\* a callback that leaves a running timer alone
searchResultsMutation_NoReset(w, hasElementNodes) ==
  IF ~hasElementNodes THEN w
  ELSE [w EXCEPT !.searchResultsDebounceTimer =
                    IF @ = NoTimer THEN w.elapsed + debounceMs ELSE @,
                 !.lastMutation = w.elapsed]

\* the MutationObserver callback: clearTimeout, then setTimeout(..., 200)
searchResultsMutation(w, hasElementNodes) ==
  IF ~hasElementNodes THEN w
  ELSE [w EXCEPT !.searchResultsDebounceTimer = w.elapsed + debounceMs,
                 !.lastMutation = w.elapsed]

\* the callback of the debounce timer: the rescan
debouncedRescan(w) ==
  [w EXCEPT !.searchResultsDebounceTimer = NoTimer,
            !.observed = IF w.intersectionObserver
                         THEN @ \cup (w.dom \ w.processedCards) ELSE @,
            !.lastMutation = NoTimer,
            !.rescans = @ + 1]

\* cleanupSearchResultsObservers, as far as the observers and the timer go
cleanupObservers(w) ==
  [w EXCEPT !.cancelled = w.searchResultsDebounceTimer # NoTimer,
            !.searchResultsDebounceTimer = NoTimer,
            !.lastMutation = NoTimer,
            !.searchResultsObserver = FALSE,
            !.intersectionObserver = FALSE,
            !.observed = {}]

SetupSearchResultsObserver(cards, processed) ==
  /\ call = NoCall
  /\ call' = setupSearchResultsObserver(cards, processed)
  /\ CallsUnchanged

Debouncing == call # NoCall /\ call.fn = "setupSearchResultsObserver"

\* the host page changes the content area; it may add a card
ContentMutation(hasElementNodes, addsCard) ==
  /\ Debouncing
  /\ call.searchResultsObserver
  /\ addsCard => hasElementNodes /\ Cardinality(call.dom) < NCards
  /\ call' = searchResultsMutation(
               IF addsCard
               THEN [call EXCEPT !.dom = @ \cup {Cardinality(call.dom) + 1}]
               ELSE call,
               hasElementNodes)
  /\ hasElementNodes => call.lastMutation # call.elapsed \/ addsCard
  /\ CallsUnchanged

DebounceTimeout ==
  /\ Debouncing
  /\ call.searchResultsDebounceTimer = call.elapsed
  /\ call' = debouncedRescan(call)
  /\ CallsUnchanged

\* a card comes near the viewport: it is processed and no longer observed
CardIntersects(card) ==
  /\ Debouncing
  /\ card \in call.observed
  /\ call' = [call EXCEPT !.processedCards = @ \cup {card}, !.observed = @ \ {card}]
  /\ CallsUnchanged

\* the page is left
ObserversCleanup ==
  /\ Debouncing
  /\ call.searchResultsObserver
  /\ call' = cleanupObservers(call)
  /\ CallsUnchanged

\* time passes up to the next instant, and not past the timer when it is due
DebounceTick ==
  /\ Debouncing
  /\ call.searchResultsDebounceTimer # call.elapsed
  /\ call.elapsed < MaxDebounceTicks * DebounceStep
  /\ call' = [call EXCEPT !.elapsed = @ + DebounceStep]
  /\ CallsUnchanged

InitDebounce == InitCache
NextDebounce ==
  \/ /\ call = NoCall
     /\ \E n \in 1..2 : \E processed \in SUBSET (1..n) :
          SetupSearchResultsObserver(1..n, processed)
  \/ \E hasElementNodes, addsCard \in BOOLEAN : ContentMutation(hasElementNodes, addsCard)
  \/ DebounceTimeout
  \/ \E card \in Cards : CardIntersects(card)
  \/ ObserversCleanup
  \/ DebounceTick
SpecDebounce == InitDebounce /\ [][NextDebounce]_vars

(***************************************************************************)
(* Popup: the settings form.  Both DOMContentLoaded listeners of popup.js   *)
(* are attached to the same elements; the second one saves workAddress and  *)
(* apiKey only.  chrome.storage.sync.set merges the keys it is given into   *)
(* the store.                                                              *)
(***************************************************************************)
\* what the user types into the work-address and the API-key fields
TypedAddresses == {"", "1 ", "1 Wall St ", "350 5th Ave, New York, NY"}
TypedApiKeys == {"", "KEY", "0123456789abcdef0123"}
minApiKeyLength == 20
minQueryLength == 3
\* the features Geoapify can return: properties.formatted and
\* geometry.coordinates = [lon, lat]
Features ==
  {[formatted |-> "350 5th Ave, New York, NY", coordinates |-> <<"-73.9857", "40.7484">>],
   [formatted |-> "1 Wall St, New York, NY", coordinates |-> <<"-74.0116", "40.7074">>]}
\* { lat: feature.geometry.coordinates[1], lon: feature.geometry.coordinates[0] }
CoordsOf(feature) == [lat |-> feature.coordinates[2], lon |-> feature.coordinates[1]]
NoDraft == [pending |-> FALSE]
\* no workCoords in the store, selectedCoords === null
NoCoords == [lat |-> Null, lon |-> Null]
\* the stores a popup can be opened on for the first time (an unchecked
\* debugMode stands for an absent one: the checkbox is unchecked either way)
FreshSyncs ==
  {[workAddress |-> Null, apiKey |-> Null, debugMode |-> FALSE, workCoords |-> NoCoords],
   [workAddress |-> "1 Wall St", apiKey |-> "0123456789abcdef0123",
    debugMode |-> FALSE, workCoords |-> NoCoords]}

\* the popup after both listeners have loaded the existing settings
OpenedPopup(sync) ==
  [fn |-> "popup",
   workAddressInput |-> IF sync.workAddress \notin {Null, ""} THEN sync.workAddress ELSE "",
   apiKeyInput |-> IF sync.apiKey \notin {Null, ""} THEN sync.apiKey ELSE "",
   debugModeInput |-> sync.debugMode,
   selectedCoords |-> sync.workCoords,
   autoSaveTimer |-> NoDraft,
   autoSaveTimer2 |-> NoDraft,
   autocompleteTimer |-> FALSE,
   results |-> {},
   sync |-> sync]

\* performSave of the first listener: workCoords is written when selectedCoords is set
performSave(p, draft) ==
  [p EXCEPT !.sync = [workAddress |-> draft.workAddress, apiKey |-> draft.apiKey,
                      debugMode |-> draft.debugMode,
                      workCoords |-> IF p.selectedCoords # NoCoords THEN p.selectedCoords
                                     ELSE @.workCoords]]
\* performSave of the second listener
performSave2(p, draft) ==
  [p EXCEPT !.sync.workAddress = draft.workAddress, !.sync.apiKey = draft.apiKey]

\* the values saveDraft reads from the form when it is called
Draft(p) ==
  [pending |-> TRUE, workAddress |-> trim(p.workAddressInput),
   apiKey |-> trim(p.apiKeyInput), debugMode |-> p.debugModeInput]

\* saveDraft of the first listener
saveDraft(p, immediate) ==
  IF immediate THEN performSave([p EXCEPT !.autoSaveTimer = NoDraft], Draft(p))
  ELSE [p EXCEPT !.autoSaveTimer = Draft(p)]
\* saveDraft of the second listener
saveDraft2(p, immediate) ==
  IF immediate THEN performSave2([p EXCEPT !.autoSaveTimer2 = NoDraft], Draft(p))
  ELSE [p EXCEPT !.autoSaveTimer2 = Draft(p)]

\* the first 'input' listener of the work-address field: autocomplete
autocompleteInput(p) ==
  LET p1 == [p EXCEPT !.autocompleteTimer = FALSE] IN
  IF Len(trim(p.workAddressInput)) < minQueryLength THEN [p1 EXCEPT !.results = {}]
  ELSE IF trim(p.apiKeyInput) = "" THEN [p1 EXCEPT !.results = {}]
  ELSE [p1 EXCEPT !.autocompleteTimer = TRUE]

\* an 'input' event on the work-address field: the listeners in the order in
\* which they were added
workAddressInputEvent(p) == saveDraft2(saveDraft(autocompleteInput(p), FALSE), FALSE)

\* an 'input' event on the API-key field
apiKeyInputEvent(p) ==
  LET p1 == saveDraft(p, FALSE)
      p2 == IF Len(trim(p.workAddressInput)) >= minQueryLength
            THEN workAddressInputEvent(p1) ELSE p1
  IN saveDraft2(p2, FALSE)

\* the click listener of an autocomplete item
itemClick(p, feature) ==
  saveDraft([p EXCEPT !.workAddressInput = feature.formatted,
                      !.selectedCoords = CoordsOf(feature),
                      !.results = {}], TRUE)

\* the click listeners of the Save button
saveClick(p) ==
  LET d == Draft(p)
      valid == d.workAddress # "" /\ d.apiKey # "" /\ ~(Len(d.apiKey) < minApiKeyLength)
  IN IF valid THEN performSave2(performSave([p EXCEPT !.results = {}], d), d)
     ELSE [p EXCEPT !.results = {}]

PopupOpen == call # NoCall /\ call.fn = "popup"

OpenPopup(sync) ==
  /\ call = NoCall
  /\ call' = OpenedPopup(sync)
  /\ UNCHANGED <<cacheVars, cacheObs, resolveVars, pageVars>>

TypeWorkAddress(text) ==
  /\ PopupOpen
  /\ text # call.workAddressInput
  /\ call' = workAddressInputEvent([call EXCEPT !.workAddressInput = text])
  /\ UNCHANGED <<cacheVars, cacheObs, resolveVars, pageVars>>

TypeApiKey(text) ==
  /\ PopupOpen
  /\ text # call.apiKeyInput
  /\ call' = apiKeyInputEvent([call EXCEPT !.apiKeyInput = text])
  /\ UNCHANGED <<cacheVars, cacheObs, resolveVars, pageVars>>

\* the autocomplete timeout and the answer of the fetch it makes
AutocompleteTimeout(features) ==
  /\ PopupOpen
  /\ call.autocompleteTimer
  /\ call' = [call EXCEPT !.autocompleteTimer = FALSE, !.results = features]
  /\ UNCHANGED <<cacheVars, cacheObs, resolveVars, pageVars>>

SelectSuggestion(feature) ==
  /\ PopupOpen
  /\ feature \in call.results
  /\ call' = itemClick(call, feature)
  /\ UNCHANGED <<cacheVars, cacheObs, resolveVars, pageVars>>

AutoSaveTimeout ==
  /\ PopupOpen
  /\ call.autoSaveTimer.pending
  /\ call' = performSave([call EXCEPT !.autoSaveTimer = NoDraft], call.autoSaveTimer)
  /\ UNCHANGED <<cacheVars, cacheObs, resolveVars, pageVars>>

AutoSaveTimeout2 ==
  /\ PopupOpen
  /\ call.autoSaveTimer2.pending
  /\ call' = performSave2([call EXCEPT !.autoSaveTimer2 = NoDraft], call.autoSaveTimer2)
  /\ UNCHANGED <<cacheVars, cacheObs, resolveVars, pageVars>>

\* 'change' on a text field (blur), or the document becomes hidden
ChangeOrHidden ==
  /\ PopupOpen
  /\ call' = saveDraft2(saveDraft(call, TRUE), TRUE)
  /\ UNCHANGED <<cacheVars, cacheObs, resolveVars, pageVars>>

ToggleDebugMode ==
  /\ PopupOpen
  /\ call' = saveDraft([call EXCEPT !.debugModeInput = ~@], TRUE)
  /\ UNCHANGED <<cacheVars, cacheObs, resolveVars, pageVars>>

SaveClick ==
  /\ PopupOpen
  /\ call' = saveClick(call)
  /\ UNCHANGED <<cacheVars, cacheObs, resolveVars, pageVars>>

\* the popup is closed and opened again
Reopen ==
  /\ PopupOpen
  /\ call' = OpenedPopup(saveDraft2(saveDraft(call, TRUE), TRUE).sync)
  /\ call' # call
  /\ UNCHANGED <<cacheVars, cacheObs, resolveVars, pageVars>>

InitPopup == InitCache
NextPopup ==
  \/ \E sync \in FreshSyncs : OpenPopup(sync)
  \/ \E text \in TypedAddresses : TypeWorkAddress(text)
  \/ \E text \in TypedApiKeys : TypeApiKey(text)
  \/ \E features \in SUBSET Features : AutocompleteTimeout(features)
  \/ \E feature \in Features : SelectSuggestion(feature)
  \/ AutoSaveTimeout
  \/ AutoSaveTimeout2
  \/ ChangeOrHidden
  \/ ToggleDebugMode
  \/ SaveClick
  \/ Reopen
SpecPopup == InitPopup /\ [][NextPopup]_vars

(***************************************************************************)
(* Service worker and content script with debugMode                        *)
(***************************************************************************)
\* debugInfo: null when debugMode is off, { steps: [] } otherwise
NewDebugInfo(debugMode) == [on |-> debugMode, steps |-> <<>>]
\* if (debugInfo) debugInfo.steps.push(step)
Push(debugInfo, step) ==
  IF debugInfo.on THEN [debugInfo EXCEPT !.steps = Append(@, step)] ELSE debugInfo

\* geocodeAddress with its debug steps: the result, the trace and the fetch
geocodeAddressTraced_ThrowsInDebug(address, apiKey, debugInfo, label, outcome) ==
  LET url == GeocodeUrl(address, apiKey)
      d1 == Push(debugInfo, [step |-> "Geocoding " \o label, url |-> Redacted(url, apiKey)])
      d2 == Push(d1, [step |-> "Geocoding " \o label \o " " \o outcome])
  IN [result |-> IF debugInfo.on /\ outcome = "none" THEN Throw(MsgGeocodeParse)
                 ELSE geocodeAddress(outcome),
      debugInfo |-> d2, fetched |-> <<url>>]

geocodeAddressTraced(address, apiKey, debugInfo, label, outcome) ==
  LET url == GeocodeUrl(address, apiKey)
      d1 == Push(debugInfo, [step |-> "Geocoding " \o label, url |-> Redacted(url, apiKey)])
      d2 == Push(d1, [step |-> "Geocoding " \o label \o " " \o outcome])
  IN [result |-> geocodeAddress(outcome), debugInfo |-> d2, fetched |-> <<url>>]

\* fetchTransitRoute with its debug steps; a response that is not ok and has a
\* JSON body is only written to the console
fetchTransitRouteTraced(from, to, apiKey, debugInfo, o) ==
  LET url == RoutingUrl(from, to, apiKey)
      d1 == Push(debugInfo, [step |-> "Routing API Request", url |-> Redacted(url, apiKey)])
      d2 == IF o.kind = "status" THEN d1
            ELSE Push(d1, [step |-> "Routing " \o o.kind])
  IN [result |-> fetchTransitRoute(o), debugInfo |-> d2, fetched |-> <<url>>]

GeocodedApartment == [lat |-> "40.75", lon |-> "-73.97"]
GeocodedWork == [lat |-> "40.7", lon |-> "-74.0"]

\* handleCommuteRequest with storage key debugMode: the set of its outcomes,
\* each with the URLs fetched in order and with debugInfo.  The apartment is
\* geocoded first; the steps of the two geocodings are listed one after the other.
handleCommuteRequestTraced(st, debugMode, apartmentAddress, apt, work, route) ==
  LET d0 == Push(NewDebugInfo(debugMode), [step |-> "Input Addresses"]) IN
  IF st.workAddress = ""
  THEN {[throws |-> TRUE, message |-> MsgSetWorkAddress, fetched |-> <<>>, debug |-> d0]}
  ELSE IF st.apiKey = ""
  THEN {[throws |-> TRUE, message |-> MsgSetApiKey, fetched |-> <<>>, debug |-> d0]}
  ELSE
    LET a == geocodeAddressTraced(apartmentAddress, st.apiKey, d0, "Apartment", apt)
        w == IF st.workCoords
             THEN [result |-> [throws |-> FALSE, coords |-> TRUE],
                   debugInfo |-> a.debugInfo, fetched |-> <<>>]
             ELSE geocodeAddressTraced(st.workAddress, st.apiKey, a.debugInfo, "Work", work)
        geoFetched == a.fetched \o w.fetched
    IN IF a.result.throws \/ w.result.throws
       THEN {[throws |-> TRUE, message |-> g.message, fetched |-> geoFetched,
              debug |-> w.debugInfo]
               : g \in {x \in {a.result, w.result} : x.throws}}
       ELSE IF ~a.result.coords
       THEN {[throws |-> TRUE, message |-> MsgApartmentNotFound, fetched |-> geoFetched,
              debug |-> w.debugInfo]}
       ELSE IF ~w.result.coords
       THEN {[throws |-> TRUE, message |-> MsgWorkNotFound, fetched |-> geoFetched,
              debug |-> w.debugInfo]}
       ELSE LET r == fetchTransitRouteTraced(GeocodedApartment, GeocodedWork, st.apiKey,
                                             w.debugInfo, route) IN
            IF r.result.throws
            THEN {[throws |-> TRUE, message |-> r.result.message,
                   fetched |-> geoFetched \o r.fetched, debug |-> r.debugInfo]}
            ELSE {[throws |-> FALSE,
                   morning |-> [text |-> r.result.text, minutes |-> r.result.minutes],
                   fetched |-> geoFetched \o r.fetched, debug |-> r.debugInfo]}

\* the response sent: the returned object with its debug field, or {error}
onMessageTraced(outcome) ==
  IF outcome.throws THEN [error |-> outcome.message]
  ELSE [morning |-> outcome.morning, debug |-> outcome.debug]

\* processListing: the widget injected for a response; in debug mode the
\* response and the steps of response.debug are logged first
ListingProps(response, debugMode) ==
  IF HasError(response) THEN Failed(response.error) ELSE Times
\* getCommuteTimeForAddress: what a response makes of the call, which is the
\* badge drawn and the value cached
CardResult(response, debugMode) ==
  IF HasError(response)
  THEN IF IsPermanent(response.error) THEN [error |-> response.error]
       ELSE [retry |-> response.error]
  ELSE [time |-> IF response.morning.text # "" THEN response.morning.text ELSE "N/A"]

\* what the claim compares: the response without its debug field, the API
\* calls, the widget and the result for the card
Observable(outcome, debugMode) ==
  LET response == onMessageTraced(outcome) IN
  [response |-> [k \in DOMAIN response \ {"debug"} |-> response[k]],
   fetched |-> outcome.fetched,
   widget |-> View(ListingProps(response, debugMode)),
   result |-> CardResult(response, debugMode)]

HandleCommuteRequest(st, debugMode, apt, work, route) ==
  /\ call = NoCall
  /\ call' = [fn |-> "handleCommuteRequest", st |-> st, debugMode |-> debugMode,
              apt |-> apt, work |-> work, route |-> route,
              outcomes |-> handleCommuteRequestTraced(st, debugMode, "12 Main St",
                                                      apt, work, route)]
  /\ CallsUnchanged

InitDebug == InitCache
NextDebug ==
  /\ call = NoCall
  /\ \E st \in Stores : \E debugMode \in BOOLEAN : \E sc \in ApiScenarios :
       HandleCommuteRequest(st, debugMode, sc.apt, sc.work, sc.route)
SpecDebug == InitDebug /\ [][NextDebug]_vars

(***************************************************************************)
(* Properties of the request scheduler and of the page lifecycle           *)
(***************************************************************************)
\* C1 (concurrency bound): in every reachable state, whatever cards were
\* submitted, whatever requests completed and whatever teardowns and
\* re-initializations happened, at most MAX_CONCURRENT_REQUESTS resolver calls
\* are outstanding.
C1_ConcurrencyBound ==
  Cardinality(OutstandingCalls) <= MAX_CONCURRENT_REQUESTS

\* C2 (deduplication): of the items with one address that were submitted before
\* any of them completed, queued ones included, exactly one issues a resolver
\* call: no item submitted before the first completion for its address issues
\* a call of its own after that completion.
C2_Deduplication ==
  ~obs.duplicateCall

\* C3 (stale results are discarded): the result of a call that was in flight
\* when the page was torn down is never rendered, neither as the widget of a
\* listing nor as the badge of a card.
C3_StaleDiscarded ==
  ~obs.staleRender

C13_ProcessedOnce ==
  \A c \in Cards :
    /\ obs.handed[c] <= 1
    /\ (obs.handed[c] >= 1 => c \notin observed)

\* a processed card whose call was in flight at a teardown, after the page was
\* initialized again and observes other cards
C13_Witness ==
  /\ intersectionObserver
  /\ observed # {}
  /\ \E c \in Cards : obs.handed[c] = 1 /\ c \in obs.stale

\* the cards that wait in requestQueue
QueuedCards == {requestQueue[i].card : i \in DOMAIN requestQueue}

C15_CacheHit ==
  [][\A c \in Cards :
       LET address == cardAddress[c] IN
       /\ (/\ obs.handed'[c] > obs.handed[c]
           /\ MapHas(commuteCache.cache, address)
           /\ now - MapGet(commuteCache.cache, address).timestamp <= commuteCache.ttlMs)
            => /\ badge'[c] = MapGet(commuteCache.cache, address).value.kind
               /\ c \notin QueuedCards'
               /\ tasks' = tasks
       /\ (c \in OutstandingCalls /\ c \notin DOMAIN tasks')
            => /\ MapHas(commuteCache'.cache, address)
               /\ MapGet(commuteCache'.cache, address).timestamp = now
               /\ MapGet(commuteCache'.cache, address).value.kind \in Outcomes
               /\ MapGet(commuteCache'.cache, address).value.kind = badge'[c]]_vars

\* a card has just been rendered from an entry written earlier, while the
\* cache also holds the result of a failed resolution
C15_Witness ==
  /\ obs.fromCache # {}
  /\ now > 0
  /\ \E i \in DOMAIN commuteCache.cache : commuteCache.cache[i].value.kind = "error"

\* C28 (FIFO dispatch): items leave the request queue from its head, in the
\* order in which they were enqueued: an item is not dispatched while an item
\* enqueued earlier stays in the queue, an item enqueued in the step is dispatched
\* only with the whole queue, the items that stay keep their order, and of two
\* items for one address dispatched together the earlier one issues the call.
C28_FifoDispatch ==
  [][LET started == DOMAIN tasks' \ DOMAIN tasks
         q == requestQueue
     IN /\ \A i, j \in DOMAIN q :
             (i < j /\ q[j].card \in started) => q[i].card \in started
        /\ started \ QueuedCards # {} => QueuedCards \subseteq started
        /\ \A i, j \in DOMAIN q :
             (i < j /\ q[i].card \in QueuedCards' /\ q[j].card \in QueuedCards')
               => \E k, l \in DOMAIN requestQueue' :
                    k < l /\ requestQueue'[k] = q[i] /\ requestQueue'[l] = q[j]
        /\ \A i, j \in DOMAIN q :
             (/\ i < j
              /\ q[i].card \in started
              /\ q[j].card \in started
              /\ q[i].address = q[j].address)
               => tasks'[q[j].card] # q[j].card]_vars
\* a completion has dispatched the head of a queue of two and left the other
C28_Witness ==
  /\ obs.dispatched # {}
  /\ Len(requestQueue) >= 1
  /\ activeRequests = MAX_CONCURRENT_REQUESTS
  /\ \A i \in DOMAIN requestQueue :
       \A c \in obs.dispatched : c < requestQueue[i].card

\* C29 (pending-request table): pendingRequests holds an entry for an address
\* exactly while a getCommuteTimeForAddress call for that address has not
\* returned, the entry belongs to that call, and the table is empty when no call
\* is outstanding; so the entry is gone once the call has returned, with a
\* result or with an error.
C29_PendingTable ==
  /\ DOMAIN pendingRequests = {cardAddress[c] : c \in OutstandingCalls}
  /\ \A a \in DOMAIN pendingRequests :
       /\ pendingRequests[a] \in OutstandingCalls
       /\ cardAddress[pendingRequests[a]] = a
  /\ \A c, d \in OutstandingCalls : cardAddress[c] = cardAddress[d] => c = d
  /\ OutstandingCalls = {} => pendingRequests = <<>>
\* a call has failed and its entry is gone while another call is outstanding
C29_Witness ==
  /\ OutstandingCalls # {}
  /\ \E a \in obs.done \ DOMAIN pendingRequests :
       \E i \in DOMAIN commuteCache.cache :
         /\ commuteCache.cache[i].key = a
         /\ commuteCache.cache[i].value.kind = "error"

\* C30 (bounded DOM-stability wait): whatever the mutations, the promise of
\* waitForDomToSettle is resolved when maxWait has passed since the call, and it
\* is not resolved before a timer that ends the wait has run; when it is resolved
\* before maxWait, no mutation was observed in the stabilityThreshold before it.
C30_BoundedSettle ==
  Settling =>
    /\ call.resolvedAt = NoTimer =>
         /\ call.elapsed <= call.maxWait
         /\ call.safetyInterval # NoTimer
         /\ call.safetyInterval <= call.maxWait
         /\ call.observing
    /\ call.resolvedAt # NoTimer =>
         /\ call.resolvedAt <= call.maxWait
         /\ ~call.observing
         /\ call.resolvedAt < call.maxWait =>
              call.resolvedAt - call.lastMutation >= call.stabilityThreshold
\* mutations kept the stability timer from running and the cap resolved the promise
C30_Witness ==
  /\ Settling
  /\ call.resolvedAt = call.maxWait
  /\ call.lastMutation > call.maxWait - call.stabilityThreshold

\* C31 (debounced rescan): while element-adding mutations follow each other
\* within the debounce time no rescan runs; the rescan runs once, 200 ms after
\* the last of them, and adds to the observed cards exactly the cards of the page
\* that are not marked processed; after a cleanup that cancelled the timer no
\* rescan runs.
C31_DebouncedRescan ==
  /\ [](Debouncing =>
         /\ (call.lastMutation # NoTimer) =
               (call.searchResultsDebounceTimer # NoTimer)
         /\ call.lastMutation # NoTimer =>
              /\ call.searchResultsDebounceTimer = call.lastMutation + debounceMs
              /\ call.elapsed <= call.searchResultsDebounceTimer
         /\ call.observed \cap call.processedCards = {}
         /\ ~call.searchResultsObserver => call.searchResultsDebounceTimer = NoTimer)
  /\ [][(Debouncing /\ call'.rescans # call.rescans) =>
          /\ call'.rescans = call.rescans + 1
          /\ call.lastMutation # NoTimer
          /\ call.elapsed = call.lastMutation + debounceMs
          /\ call'.lastMutation = NoTimer
          /\ call'.observed = call.observed \cup (call.dom \ call.processedCards)
          /\ call.searchResultsObserver
          /\ ~call.cancelled]_vars
\* a burst of three mutations that added a card was followed by its one rescan,
\* which left a processed card unobserved
C31_Witness ==
  /\ Debouncing
  /\ call.rescans = 1
  /\ call.elapsed = 2 * DebounceStep + debounceMs
  /\ call.processedCards # {}
  /\ call.observed # {}
  /\ call.searchResultsDebounceTimer = NoTimer
\* a cleanup has cancelled a running timer and the time of its rescan has passed
C31_WitnessCancelled ==
  /\ Debouncing
  /\ call.cancelled
  /\ call.rescans = 0
  /\ call.elapsed >= 2 * debounceMs

\* C32 (no stale entry after a destination change): every result in the cache
\* was computed against the work address that is stored now; a result that the
\* service worker computed against a work address replaced since is never cached.
C32_NoStaleEntry ==
  \A i \in DOMAIN commuteCache.cache :
    "workAddress" \in DOMAIN commuteCache.cache[i].value
      => commuteCache.cache[i].value.workAddress = store.workAddress

\* C33 (every listing navigation is annotated): when the content script has
\* noticed a listing page, then, unless the page is left, a widget made from what
\* that page shows is eventually in the document and processListing has ended.
C33_ListingAnnotated ==
  \A u \in {x \in ListingUrls : isListingPage(x)} :
    (href = u /\ currentUrl = u)
      ~> \/ href # u
         \/ /\ widget # NoWidget
            /\ widget[Len(widget)].url = u
            /\ widget[Len(widget)].state \in {"error", "success"}

\* the second listing is shown, nothing is scheduled or running any more, and
\* the widget in the document was made from the first listing
C33_LeftWithPreviousListing ==
  /\ href = "/building/the-max"
  /\ currentUrl = href
  /\ timers.listing = 0
  /\ lst = LstIdle
  /\ ~isProcessing
  /\ widget # NoWidget
  /\ widget[Len(widget)].url = "/rental/101"

\* C34 (observers exist only on a search results page): when the content script
\* has noticed the page that is shown and the mutation watcher of the search
\* results or the intersection observer is installed, the page is classified
\* SearchResults.
C34_ObserversOnSearchPage ==
  (href = currentUrl /\ (searchResultsObserver \/ intersectionObserver))
    => PageClass(href) = "SearchResults"

\* C35 (no card is left loading): a card that shows a loading badge eventually
\* shows a success or an error badge.
C35_NoCardLeftLoading ==
  \A c \in Cards :
    (badge[c] = "loading") ~> (badge[c] \in {"success", "error"})
\* a card shows the loading badge, is marked processed, and neither waits in the
\* queue nor has a processCardRequest under way
C35_LeftLoading ==
  \E c \in Cards :
    /\ badge[c] = "loading"
    /\ c \in processedCards
    /\ c \notin QueuedCards
    /\ c \notin DOMAIN tasks

\* C36 (the slot counter is exact): activeRequests is the number of dispatched
\* items whose processCardRequest has not finished, and lies between 0 and
\* MAX_CONCURRENT_REQUESTS.
C36_SlotCounterExact ==
  /\ activeRequests = Cardinality(DOMAIN tasks)
  /\ activeRequests >= 0
  /\ activeRequests <= MAX_CONCURRENT_REQUESTS

\* C37 (one navigation, one re-initialization): after the teardown and the
\* scheduling done by a popstate handler, no handler tears down and schedules an
\* initialization again before the next navigation, whatever DOM mutations follow.
C37_OneReinitialization ==
  ~obs.again

C39_ReadsDoNotExtend ==
  /\ [](\A i \in 1..Len(commuteCache.cache) :
          LET e == commuteCache.cache[i] IN
          /\ lastSet[e.key].live
          /\ e.timestamp = lastSet[e.key].at
          /\ now - e.timestamp > commuteCache.ttlMs =>
               /\ LRUHas(commuteCache, e.key, now).ret = FALSE
               /\ LRUGet(commuteCache, e.key, now).ret = Undefined)
  /\ [][lastOp'.op = "get" =>
          /\ \A key \in MapKeys(commuteCache'.cache) :
               /\ MapHas(commuteCache.cache, key)
               /\ MapGet(commuteCache'.cache, key) = MapGet(commuteCache.cache, key)
          /\ lastOp'.ret # Undefined =>
               /\ MapDelete(commuteCache'.cache, lastOp'.key)
                    = MapDelete(commuteCache.cache, lastOp'.key)
               /\ commuteCache'.cache[Len(commuteCache'.cache)]
                    = MapGet(commuteCache.cache, lastOp'.key)]_vars
\* a get found its key some time after the set, moved the entry behind another
\* one, and the entry still carries the time of the set
C39_Witness ==
  /\ lastOp.op = "get"
  /\ lastOp.ret # Undefined
  /\ lastOp.set.at < now
  /\ Len(commuteCache.cache) >= 2
  /\ commuteCache.cache[Len(commuteCache.cache)].key = lastOp.key
  /\ commuteCache.cache[Len(commuteCache.cache)].timestamp = lastOp.set.at
  /\ commuteCache.cache[1].timestamp > lastOp.set.at
\* an entry that was read several times is gone once it is older than ttlMs
C39_WitnessExpired ==
  /\ lastOp.op = "get"
  /\ lastOp.ret = Undefined
  /\ lastOp.set.live
  /\ now - lastOp.set.at > commuteCache.ttlMs
  /\ ~MapHas(commuteCache.cache, lastOp.key)

\* C40 (stored work coordinates match the stored work address): whatever is
\* typed, selected and saved in the popup, the workCoords in the store are
\* absent or are the coordinates of the suggestion whose formatted text is the
\* workAddress in the store.
C40_CoordsMatchAddress ==
  PopupOpen =>
    \/ call.sync.workCoords = NoCoords
    \/ \E feature \in Features :
         /\ feature.formatted = call.sync.workAddress
         /\ CoordsOf(feature) = call.sync.workCoords

\* C21 (single widget): in every reachable state the document holds at most one
\* element with id pace-commute-widget, and that widget shows exactly one of the
\* states loading, error and success.
C21_SingleWidget ==
  /\ Len(widget) <= 1
  /\ \A i \in 1..Len(widget) : widget[i].state \in {"loading", "error", "success"}
\* a widget was replaced: the response is rendered over the loading widget
C21_Witness ==
  /\ Len(widget) = 1
  /\ widget[1].state \in {"error", "success"}
  /\ widget[1].error # MsgNoAddress

\* C22 (bounded content wait): waitForContent ends after at most maxWait of
\* polling, and when the content markers never appeared processListing then ends
\* with the widget in the error state "Could not detect address on this page."
C22_BoundedContentWait ==
  /\ [](lst.pc = "extract" => lst.waited <= contentMaxWait)
  /\ [][(lst.pc = "extract" /\ ~lst.markers /\ lst'.pc # "extract")
         => /\ lst' = LstIdle
            /\ Len(widget') = 1
            /\ widget'[1].state = "error"
            /\ widget'[1].error = MsgNoAddress]_vars

\* C23 (diagnostic mode does not change outcomes): a request handled with
\* debugMode on and the same request handled with debugMode off have the same
\* responses apart from the debug field, the same API calls in the same order,
\* and lead to the same widget state and the same cached result and badge.
C23_DebugModeNeutral ==
  call.fn = "handleCommuteRequest" =>
    {Observable(o, call.debugMode) : o \in call.outcomes}
      = {Observable(o, ~call.debugMode) :
           o \in handleCommuteRequestTraced(call.st, ~call.debugMode, "12 Main St",
                                            call.apt, call.work, call.route)}
\* a request in debug mode that reached the routing API and recorded its steps
C23_Witness ==
  /\ call.fn = "handleCommuteRequest"
  /\ call.debugMode
  /\ \E o \in call.outcomes :
       ~o.throws /\ Len(o.fetched) = 3 /\ Len(o.debug.steps) >= 6

\* C24 (credential redaction): no URL recorded in a step of the debug trace
\* contains the API key, neither as it is nor in its URL-encoded form.
C24_CredentialRedaction ==
  call.fn \in {"geocodeAddress", "fetchTransitRoute"} =>
    /\ ~Includes(call.step.url, call.apiKey)
    /\ ~Includes(call.step.url, FormEncode(call.apiKey))

\* C19 (extraction failure is surfaced and costs no request): a card from
\* which no valid address can be extracted shows, once it was handed to
\* queueCardForProcessing, a distinct "could not detect address" state, and
\* neither waits in the queue nor has a resolver call.
C19_ExtractionFailure ==
  \A c \in Cards :
    (obs.handed[c] >= 1 /\ cardAddress[c] = Null)
      => /\ badge[c] = "noAddress"
         /\ c \notin QueuedCards
         /\ c \notin DOMAIN tasks

\* C20 (the widget is never nested inside a hyperlink): for every document
\* and every element chosen by findInsertionPoint, the widget inserted by
\* injectWidget has no <a> ancestor, and when the chosen element is inside a
\* link the widget is the sibling immediately after that link.
C20_NotInsideLink ==
  call.fn = "injectWidget" =>
    LET link == IF call.insertionPoint.element = NoNode THEN NoNode
                ELSE closestLink(call.doc, call.insertionPoint.element)
    IN /\ closestLink(call.doc, call.widget.parent) = NoNode
       /\ link # NoNode =>
            /\ call.widget.parent = parentNode(call.doc, link)
            /\ call.widget.previousSibling = link

\* the extension lacks its destination address or its API key
Unconfigured == store.workAddress = "" \/ store.apiKey = ""

\* C11 (search-results configuration gate): a processSearchResults call that
\* reads a configuration without workAddress or without apiKey ends there: it
\* creates no intersection observer and no mutation watcher, observes, marks
\* and queues no card, renders no badge and starts no resolver call.
C11_ConfigurationGate ==
  [][(psr.get' < psr.get /\ Unconfigured)
       => /\ psr.settle' = psr.settle
          /\ UNCHANGED <<intersectionObserver, searchResultsObserver, observed,
                         searchResultsDebounceTimer, processedCards, requestQueue,
                         activeRequests, pendingRequests, tasks, badge>>]_vars

\* the gate has run on a search results page that shows cards
C11_Witness ==
  /\ Unconfigured
  /\ isSearchResultsPage(href)
  /\ dom # {}
  /\ timers.search = 0
  /\ psr = [get |-> 0, settle |-> 0]
  /\ ~intersectionObserver
  /\ ~searchResultsObserver

\* the segment of a path that starts at position i
SegmentAt(path, i) ==
  LET ends == {j \in i..Len(path) : CharAt(path, j) = "/"} IN
  IF ends = {} THEN SubSeq(path, i, Len(path))
  ELSE SubSeq(path, i, (CHOOSE j \in ends : \A k \in ends : j <= k) - 1)

IsNumeric(seg) == Len(seg) > 0 /\ \A j \in 1..Len(seg) : CharAt(seg, j) \in Digits

\* a purely numeric id segment directly after the prefix
NumericIdAfter(path, prefix) ==
  \E i \in 1..Len(path) :
    /\ i + Len(prefix) - 1 <= Len(path)
    /\ SubSeq(path, i, i + Len(prefix) - 1) = prefix
    /\ IsNumeric(SegmentAt(path, i + Len(prefix)))

ListingPath(path) ==
  \/ Includes(path, "/building/")
  \/ Includes(path, "/rental/")
  \/ Includes(path, "/sale/")
  \/ NumericIdAfter(path, "/for-rent/")
  \/ NumericIdAfter(path, "/for-sale/")

SearchResultsPath(path) ==
  /\ StartsWith(path, "/for-rent/") \/ StartsWith(path, "/for-sale/")
  /\ ~ListingPath(path)

\* C16 (page classification): the class selected for a path is Listing iff the
\* path contains a /building/, /rental/ or /sale/ segment or a purely numeric
\* segment directly after /for-rent/ or /for-sale/, SearchResults iff it
\* starts with /for-rent/ or /for-sale/ and is no such listing path, and Inert
\* otherwise.
C16_PageClassification ==
  call.fn = "PageClass"
    => /\ (call.ret = "Listing") <=> ListingPath(call.path)
       /\ (call.ret = "SearchResults") <=> SearchResultsPath(call.path)
       /\ (call.ret = "Inert") <=> (~ListingPath(call.path) /\ ~SearchResultsPath(call.path))

\* the strategies whose output is non-empty and passes validation
Qualifying(outputs) ==
  {i \in 1..Len(outputs) :
     outputs[i] # Null /\ outputs[i] # "" /\ isValidExtractedAddress(outputs[i])}

\* C17 (extraction strategy order): extractAddress returns the output of the
\* first strategy, in the fixed order, whose output is non-empty and passes
\* validation, and null when there is none; so it never returns a string that
\* fails validation.
C17_StrategyOrder ==
  (call.fn \in {"extractAddress", "extractAddress (content/content.js)"})
    => LET q == Qualifying(call.outputs) IN
       IF q = {} THEN call.ret = Null
       ELSE call.ret = call.outputs[CHOOSE i \in q : \A j \in q : i <= j]

\* the placeholder set, in any letter case
IsPlaceholder(t) ==
  \/ toLowerCase(t) \in {"loading", "loading...", "error", "n/a", "tbd", "pending",
                          "unavailable", "unknown", "null", "undefined", "..."}
  \/ IsRunOf(t, ".")
  \/ IsRunOf(t, "-")
  \/ IsRunOf(t, "_")

\* the strings the validator has to reject
Rejectable(text) ==
  LET t == trim(text) IN
  \/ IsPlaceholder(t)
  \/ Len(t) < 5
  \/ Len(t) > 200
  \/ \A i \in 1..Len(t) : CharAt(t, i) \notin Letters

\* C18 (validator rejects placeholders), as stated: isValidExtractedAddress
\* returns false for every placeholder in any letter case, for every string
\* shorter than 5 or longer than 200 characters after trimming and for every
\* string without a letter, and no such string is returned by
\* extractAddressFromCard to be sent to the resolver.
C18_Original ==
  /\ (call.fn = "isValidExtractedAddress" /\ Rejectable(call.text)) => ~call.ret
  /\ (call.fn = "extractAddressFromCard" /\ call.ret # Null) => ~Rejectable(call.ret)

\* C18, amended: the validator rejects those strings, and the street address
\* at the head of every string that extractAddressFromCard returns is none of
\* them; the string returned is that street address followed by a city and a
\* state, and it can be longer than 200 characters.
C18_ValidatorRejects ==
  /\ (call.fn = "isValidExtractedAddress" /\ Rejectable(call.text)) => ~call.ret
  /\ (call.fn = "extractAddressFromCard" /\ call.ret # Null)
       => /\ ~Rejectable(call.street)
          /\ StartsWith(call.ret, call.street \o ", ")
          /\ ~IsPlaceholder(call.ret)

\* the validator has rejected a text longer than 200 characters
C18_Witness ==
  /\ call.fn = "isValidExtractedAddress"
  /\ Len(trim(call.text)) > 200
  /\ ~call.ret

\* the text of a card that its address is read from
StreetTextOf(card) ==
  IF card.addressLink # Null /\ trim(card.addressLink) # "" THEN card.addressLink
  ELSE IF /\ card.addressElement # Null
          /\ isAddressLike(trim(card.addressElement))
          /\ Len(trim(card.addressElement)) < 100
       THEN card.addressElement
       ELSE card.link
\* the part of a text before its first '|', ' - ' or ' for '
BeforeSeparators(text) ==
  LET at == {i \in 1..Len(text) :
               \E sep \in {"|", " - ", " for "} :
                 /\ i + Len(sep) - 1 <= Len(text)
                 /\ SubSeq(text, i, i + Len(sep) - 1) = sep}
  IN IF at = {} THEN text
     ELSE SubSeq(text, 1, (CHOOSE i \in at : \A j \in at : i <= j) - 1)
\* the words of a text, each without its '#unit' part, joined by single spaces
WordEnd(text, i) ==
  CHOOSE j \in i..Len(text) :
    /\ j = Len(text) \/ CharAt(text, j + 1) \in Whitespace
    /\ \A k \in i..j : CharAt(text, k) \notin Whitespace
WithoutUnit(word) ==
  LET hashes == {k \in 1..(Len(word) - 1) : CharAt(word, k) = "#"}
  IN IF hashes = {} THEN word
     ELSE SubSeq(word, 1, (CHOOSE k \in hashes : \A j \in hashes : k <= j) - 1)
RECURSIVE JoinWords(_, _)
JoinWords(text, from) ==
  LET starts == {i \in from..Len(text) :
                   /\ CharAt(text, i) \notin Whitespace
                   /\ (i = 1 \/ CharAt(text, i - 1) \in Whitespace)}
  IN IF starts = {} THEN ""
     ELSE LET i == CHOOSE i \in starts : \A j \in starts : i <= j
              word == WithoutUnit(SubSeq(text, i, WordEnd(text, i)))
              rest == JoinWords(text, WordEnd(text, i) + 1)
          IN IF word = "" THEN rest
             ELSE IF rest = "" THEN word
             ELSE word \o " " \o rest
CleanedStreet(text) == JoinWords(BeforeSeparators(text), 1)
\* the city and state for a neighborhood hint
LocalitySuffix(hint) ==
  IF hint # Null /\ toLowerCase(hint) \in NJ_CITIES THEN ", " \o hint \o ", NJ"
  ELSE IF hint # Null /\ toLowerCase(hint) \in JERSEY_CITY_NEIGHBORHOODS
  THEN ", Jersey City, NJ"
  ELSE ", New York, NY"

\* C26 (duration formatting): for every whole number of minutes m >= 0,
\* formatDuration(m) is "m min" when m < 60, "h hr" when m = 60h with h >= 1,
\* and "h hr r min" with 60h + r = m and r in 1..59 otherwise; 45 gives
\* "45 min", 60 gives "1 hr" and 95 gives "1 hr 35 min".
C26_DurationFormatting ==
  call.fn = "formatDuration" =>
    LET m == call.minutes IN
    /\ m < 60 => call.ret = ToString(m) \o " min"
    /\ m >= 60 =>
         \E h \in 1..m : \E r \in 0..59 :
           /\ 60 * h + r = m
           /\ call.ret = IF r = 0 THEN ToString(h) \o " hr"
                         ELSE ToString(h) \o " hr " \o ToString(r) \o " min"
    /\ m = 45 => call.ret = "45 min"
    /\ m = 60 => call.ret = "1 hr"
    /\ m = 95 => call.ret = "1 hr 35 min"
\* two whole hours were formatted
C26_Witness ==
  call.fn = "formatDuration" /\ call.minutes = 120 /\ call.ret = "2 hr"

\* C27 (default departure time): for every local weekday and hour, the value
\* of getNextMondayAt8AM, read as a local time, is a Monday at 08:00, strictly
\* later than the current time, and no Monday 08:00 lies between the two.
C27_NextMonday ==
  call.fn = "getNextMondayAt8AM" =>
    LET nowMinutes == (call.now.day * 24 + call.now.hour) * 60 + call.now.minute
        week == 7 * 24 * 60
    IN /\ call.ret % 60 = 0
       /\ ((call.ret \div 60) \div (24 * 60) + 4) % 7 = 1
       /\ (call.ret \div 60) % (24 * 60) = 8 * 60
       /\ call.ret \div 60 > nowMinutes
       /\ call.ret \div 60 - week <= nowMinutes
\* called on a Monday before 08:00: the same day is chosen
C27_Witness ==
  /\ call.fn = "getNextMondayAt8AM"
  /\ (call.now.day + 4) % 7 = 1
  /\ call.now.hour = 7
  /\ call.ret = (call.now.day * 24 + 8) * 3600

\* C25 (card address composition): for every card whose street text passes
\* validation, the combined address is the cleaned street text (the part before
\* '|', ' - ' and ' for ', without '#unit' tokens, whitespace collapsed) followed
\* by ', <neighborhood>, NJ' for an NJ city, by ', Jersey City, NJ' for a Jersey
\* City sub-neighborhood, and by ', New York, NY' otherwise.
C25_CardAddressComposition ==
  (call.fn = "extractAddressFromCard" /\ call.ret # Null)
    => call.ret = CleanedStreet(StreetTextOf(call.card))
                    \o LocalitySuffix(call.card.neighborhood)
\* the card of the end-to-end example, and a card in an NJ city
C25_Witness ==
  /\ call.fn = "extractAddressFromCard"
  /\ \/ /\ call.card.addressLink = "150 East 44th Street #48F"
        /\ call.card.neighborhood = "MIDTOWN"
        /\ call.ret = "150 East 44th Street, New York, NY"
     \/ /\ call.card.addressLink = "88  Greenwich St #12A | StreetEasy"
        /\ call.card.neighborhood = "Hoboken"
        /\ call.ret = "88 Greenwich St, Hoboken, NJ"

(***************************************************************************)
(* Properties of the result cache                                          *)
(***************************************************************************)
DestinationKeys == {"workAddress", "workCoords"}

\* C4: a storage change in area 'sync' that includes workAddress or workCoords
\* leaves the cache with zero entries; a change that includes neither key
\* leaves the cache as it was.
C4_CacheInvalidation ==
  lastOp.op = "changed" =>
    /\ (lastOp.areaName = "sync" /\ lastOp.changes \cap DestinationKeys # {})
          => LRUSize(commuteCache) = 0
    /\ ((lastOp.changes \cap DestinationKeys = {}) => lastOp.same)

C4_Witness ==
  /\ lastOp.op = "changed"
  /\ lastOp.areaName = "sync"
  /\ lastOp.changes = {"workCoords"}
  /\ lastOp.sizeBefore = commuteCache.maxSize
  /\ LRUSize(commuteCache) = 0

\* C5: once more than ttlMs has elapsed since the last set of K, has(K) is
\* false and removes the entry, and get(K) is undefined (also when the entry
\* is gone); while at most ttlMs has elapsed and K was neither evicted nor
\* cleared, has(K) is true.
C5_CacheTtl ==
  /\ lastOp.op = "has" =>
        /\ (lastOp.set.live /\ now - lastOp.set.at > commuteCache.ttlMs)
              => (lastOp.ret = FALSE /\ ~MapHas(commuteCache.cache, lastOp.key))
        /\ (lastOp.set.live /\ now - lastOp.set.at <= commuteCache.ttlMs)
              => lastOp.ret = TRUE
  /\ (lastOp.op = "get" /\ (~lastOp.set.live \/ now - lastOp.set.at > commuteCache.ttlMs))
        => lastOp.ret = Undefined

C5_Witness ==
  /\ lastOp.op = "has"
  /\ lastOp.set.live
  /\ now - lastOp.set.at > commuteCache.ttlMs
  /\ lastOp.ret = FALSE
  /\ ~MapHas(commuteCache.cache, lastOp.key)

\* C6: a set of an absent key into a full cache evicts exactly one entry, the
\* one touched least recently (set and successful get are touches); a set
\* that overwrites a present key evicts nothing.
C6_CacheEviction ==
  lastOp.op = "set" =>
    /\ (lastOp.sizeBefore = commuteCache.maxSize /\ ~lastOp.present)
          => lastOp.evicted = {lastOp.lru}
    /\ (lastOp.present => lastOp.evicted = {})

\* the victim was inserted after an entry that survives, which was read later
C6_Witness ==
  /\ lastOp.op = "set"
  /\ lastOp.sizeBefore = commuteCache.maxSize
  /\ ~lastOp.present
  /\ lastOp.evicted = {lastOp.lru}
  /\ \E i \in 1..LRUSize(commuteCache) :
        /\ commuteCache.cache[i].key # lastOp.key
        /\ commuteCache.cache[i].timestamp < lastOp.lruTimestamp

\* C7: the cache never holds more than maxSize entries and the eviction loop
\* of every set ends.
C7_CacheCapacity ==
  /\ LRUSize(commuteCache) <= commuteCache.maxSize
  /\ (lastOp.op = "set" => lastOp.terminated)

C7_Witness ==
  /\ lastOp.op = "set"
  /\ lastOp.iters = 1
  /\ lastOp.terminated
  /\ LRUSize(commuteCache) = commuteCache.maxSize

(***************************************************************************)
(* Properties of one resolution (retry loop and service worker)            *)
(***************************************************************************)
\* C8: a call makes at most maxRetries + 1 attempts and attempt n is preceded
\* by a wait of 500 * n ms; a response with a permanent error ends the call
\* with that error; a success ends the call; after a thrown call or an empty
\* response the call goes on until exactly maxRetries + 1 attempts were made.
C8_RetryBudget ==
  /\ rq.pc # "idle" =>
       /\ rq.sent <= maxRetries + 1
       /\ Len(rq.waits) = rq.sent
       /\ \A n \in 0..(rq.sent - 1) : rq.waits[n + 1] = 500 * n
  /\ Len(log) = 1 =>
       /\ (log[1].kind = "reply" /\ HasError(log[1].response)
             /\ IsPermanent(log[1].response.error))
            => /\ rq.pc = "done"
               /\ rq.result = [error |-> log[1].response.error, address |-> rq.address]
       /\ (log[1].kind = "reply" /\ ~HasError(log[1].response))
            => /\ rq.pc = "done"
               /\ rq.result = [time |-> log[1].response.morning.text,
                               address |-> rq.address]
       /\ log[1].kind \in {"throw", "empty"}
            => /\ IF rq.sent = maxRetries + 1 THEN rq.pc = "done" ELSE rq.pc = "sleep"
               /\ rq.pc = "done" =>
                    rq.result.error \in {"API error", "No response from service worker"}

C8_Witness ==
  /\ rq.pc = "done"
  /\ rq.sent = 3
  /\ rq.waits = <<0, 500, 1000>>
  /\ log = <<[kind |-> "throw"]>>
  /\ rq.result = [error |-> "API error", address |-> rq.address]

\* The errors of the resolver for an address that cannot be geocoded, one
\* geocoded outside the service area, and a missing transit route
ResolutionFailures ==
  {MsgApartmentNotFound, MsgWorkNotFound, MsgWrongLocation, MsgNoRoute400, MsgNoRoute}

\* C9: every such error ends the call at once, with the resolver's message
\* as the result.
C9_PermanentNotRetried ==
  (/\ Len(log) = 1
   /\ log[1].kind = "reply"
   /\ HasError(log[1].response)
   /\ log[1].response.error \in ResolutionFailures)
  => /\ rq.pc = "done"
     /\ rq.result = [error |-> log[1].response.error, address |-> rq.address]

\* C10: a request handled while workAddress or apiKey is missing makes no
\* fetch and is answered with an error, which ends the call at once as its
\* result.
C10_ConfigurationError ==
  (Len(log) = 1 /\ log[1].kind = "reply" /\ ~log[1].configured)
  => /\ log[1].fetches = 0
     /\ HasError(log[1].response)
     /\ rq.pc = "done"
     /\ rq.result = [error |-> log[1].response.error, address |-> rq.address]

C10_Witness ==
  /\ store.workAddress # ""
  /\ store.apiKey = ""
  /\ Len(log) = 1
  /\ log[1].kind = "reply"
  /\ log[1].fetches = 0
  /\ rq.pc = "done"
  /\ rq.sent = 1
  /\ rq.result = [error |-> MsgSetApiKey, address |-> rq.address]

====
